---- MODULE Spec2Model ----
(***************************************************************************)
(* Scene timeline engine of ScenePlanner (src/src/engine/scene_planner.py). *)
(*                                                                         *)
(* Times are integers in centiseconds (1 s = 100): every threshold of the  *)
(* code (0.01 s .. 45 s) is a whole number of centiseconds.  A float       *)
(* division whose result is not a whole number of centiseconds is rounded  *)
(* down, and the variable "rounded" records that this happened, so that a  *)
(* statement can be restricted to runs in which the arithmetic was exact.  *)
(*                                                                         *)
(* A scene is [num, start, end, type, text, elems] (text: script_text); an  *)
(* element is [uid, type, idx, kw, ts]: uid is the identity of the Python  *)
(* dict (two list entries with the same uid are the same object), idx the  *)
(* asset index of a reddit/youtube/graph element (-1: none), kw the        *)
(* keyword of an icon/text element (0: none).                              *)
(*                                                                         *)
(* A text is a sequence of one-character strings.                          *)
(***************************************************************************)
EXTENDS Integers, Sequences, FiniteSets, TLC

VARIABLES
    pc,        \* position in the pass being executed
    scenes,    \* timeline['scenes']
    total,     \* total_duration / actual_duration
    numAssets, \* timeline['_metadata']: [reddit, youtube, graph] counts
    prev,      \* timeline['scenes'] before the step last executed
    pass,      \* 1: first _validate_timeline pass, 2: pass applied to its own result
    snap,      \* the timeline returned by the first pass
    rounded,   \* TRUE once a division was rounded to the centisecond grid
    sentence_timings,   \* voiceover sentences: [text, start, end]
    available_keywords, \* self.available_keywords: [kw, sentence, display]
    assets,             \* timeline['_assets']: [reddit, youtube, graphs]
    segments,           \* timeline['_segments']: [num, text, est]
    keyword_time_map,   \* self.keyword_time_map: keyword -> sentence start times
    precollected,       \* precollected_gameplay_elements
    evidence_scenes,    \* evidence_scenes being rebuilt
    title_card_end,     \* title_card_end
    max_retries,        \* ClaudeClient.ask: the parameter max_retries
    attempt,            \* ClaudeClient.ask: the loop variable attempt
    calls,              \* what each self.client.messages.create has done
    slept,              \* the seconds of every time.sleep
    result,             \* what ask has returned
    start_time,         \* _generate_filler_scenes: the parameter start_time
    end_time,           \* _generate_filler_scenes: the parameter end_time
    keywords_to_use,    \* _generate_filler_scenes: keywords_to_use
    keyword_idx,        \* _generate_filler_scenes: keyword_idx
    current_time,       \* _generate_filler_scenes: current_time
    scene_number,       \* _generate_filler_scenes: scene_number
    scenes_since_special, \* _generate_filler_scenes: scenes_since_special
    filler_scenes       \* _generate_filler_scenes: filler_scenes

\* state of assign_timing_with_sentences
avars == <<sentence_timings, available_keywords, assets, segments,
           keyword_time_map, precollected, evidence_scenes, title_card_end>>

\* state of ClaudeClient.ask
cvars == <<max_retries, attempt, calls, slept, result>>

\* state of ScenePlanner._generate_filler_scenes
gvars == <<start_time, end_time, keywords_to_use, keyword_idx, current_time,
           scene_number, scenes_since_special, filler_scenes>>

vars == <<pc, scenes, total, numAssets, prev, pass, snap, rounded, avars, cvars, gvars>>

\* no request to the API is under way
NoCall ==
    /\ max_retries = 0
    /\ attempt = 0
    /\ calls = <<>>
    /\ slept = <<>>
    /\ result = "none"

\* no filler scenes are being generated
NoFiller ==
    /\ start_time = 0
    /\ end_time = 0
    /\ keywords_to_use = <<>>
    /\ keyword_idx = 0
    /\ current_time = 0
    /\ scene_number = 0
    /\ scenes_since_special = 0
    /\ filler_scenes = <<>>

----------------------------------------------------------------------------
(* Generic helpers *)

Cs(sec) == sec * 100

Min2(a, b) == IF a <= b THEN a ELSE b
Max2(a, b) == IF a >= b THEN a ELSE b
Abs(a) == IF a >= 0 THEN a ELSE 0 - a

SetMin(S) == CHOOSE x \in S : \A y \in S : x <= y
SetMax(S) == CHOOSE x \in S : \A y \in S : x >= y

RECURSIVE Concat(_)
\* a list built item by item, as a tuple of its items
Tuple(f) == SubSeq(f, 1, Len(f))

Concat(ss) == IF ss = <<>> THEN <<>> ELSE Head(ss) \o Concat(Tail(ss))

Dur(s) == s.end - s.start

Elem(u, t, i, k, ts) == [uid |-> u, type |-> t, idx |-> i, kw |-> k, ts |-> ts]

Scene(n, st, en, ty, es) ==
    [num |-> n, start |-> st, end |-> en, type |-> ty, text |-> <<>>, elems |-> es]

EvidenceElemTypes == {"reddit", "youtube", "graph"}
KeywordElemTypes == {"icon", "text", "meme", "quote"}

\* the element type an evidence scene type carries ("" for any other scene type)
KindOf(sceneType) ==
    CASE sceneType = "reddit_evidence" -> "reddit"
      [] sceneType = "youtube_evidence" -> "youtube"
      [] sceneType = "data_graph" -> "graph"
      [] OTHER -> ""

\* list.sort(key=lambda s: s['start_time']): stable insertion sort
RECURSIVE InsertByStart(_, _)
InsertByStart(sorted, s) ==
    IF sorted = <<>> THEN <<s>>
    ELSE IF Head(sorted).start <= s.start
         THEN <<Head(sorted)>> \o InsertByStart(Tail(sorted), s)
         ELSE <<s>> \o sorted

RECURSIVE SortByStartFrom(_, _)
SortByStartFrom(acc, ss) ==
    IF ss = <<>> THEN acc ELSE SortByStartFrom(InsertByStart(acc, Head(ss)), Tail(ss))

SortByStart(ss) == SortByStartFrom(<<>>, ss)

Renumber(ss) == Tuple([i \in 1..Len(ss) |-> [ss[i] EXCEPT !.num = i]])

----------------------------------------------------------------------------
(* ScenePlanner._validate_timeline: one operator per FIX block *)

\* FIX 0: the first scene of the plan becomes the title card
EnforceTitleCard(ss) ==
    IF ss = <<>> THEN ss ELSE [ss EXCEPT ![1].type = "text_statement"]

\* FIX 0.1: no other scene may be a text_statement
OnlyFirstIsTitle(ss) ==
    Tuple([i \in 1..Len(ss) |->
              IF i > 1 /\ ss[i].type = "text_statement"
              THEN [ss[i] EXCEPT !.type = "gameplay_icons"]
              ELSE ss[i]])

ElemTypesOf(s) == {s.elems[k].type : k \in 1..Len(s.elems)}

\* FIX 0.2: mixed_evidence becomes a pure evidence scene, or gameplay
ConvertMixed(ss) ==
    Tuple([i \in 1..Len(ss) |->
              IF ss[i].type # "mixed_evidence" THEN ss[i]
              ELSE [ss[i] EXCEPT !.type =
                      IF "reddit" \in ElemTypesOf(ss[i]) THEN "reddit_evidence"
                      ELSE IF "youtube" \in ElemTypesOf(ss[i]) THEN "youtube_evidence"
                      ELSE IF "graph" \in ElemTypesOf(ss[i]) THEN "data_graph"
                      ELSE "gameplay_icons"]])

\* FIX 0.5: drop scenes starting at/after the voiceover end, cap those
\* ending more than 1 s after it
VoiceoverCapSlack == 100

RemovePastVoiceover(ss, totalDuration) ==
    LET kept == SelectSeq(ss, LAMBDA s : s.start < totalDuration)
    IN Tuple([i \in 1..Len(kept) |->
                  IF kept[i].end > totalDuration + VoiceoverCapSlack
                  THEN [kept[i] EXCEPT !.end = totalDuration]
                  ELSE kept[i]])

\* the first element of the scene's own kind: its index, or -1 (None)
RECURSIVE FirstIdx(_, _)
FirstIdx(es, kind) ==
    IF es = <<>> THEN -1
    ELSE IF Head(es).type = kind THEN Head(es).idx
    ELSE FirstIdx(Tail(es), kind)

\* for candidate in range(n): first candidate not in used, or -1 (None)
LowestUnused(n, used) ==
    IF \E c \in 0..(n - 1) : c \notin used
    THEN SetMin({c \in 0..(n - 1) : c \notin used})
    ELSE -1

ShortSceneDur == 60
ElemInset == 30
ElemMinInset == 5

\* timestamp of the primary element of an evidence scene (FIX 0.6)
PrimaryElemTime(s) ==
    IF Dur(s) <= ShortSceneDur
    THEN s.start + Max2(ElemMinInset, Dur(s) \div 2)
    ELSE Min2(s.start + ElemInset, s.end - ElemInset)

Demote(s) == [s EXCEPT !.type = "gameplay_icons", !.elems = <<>>]

\* mutant: the plan's index is kept without looking at the indices in use
ChooseIndexIgnoringUsed(existing, n, used) ==
    IF existing >= 0 /\ existing < n
    THEN existing
    ELSE LowestUnused(n, used)

\* the index FIX 0.6 settles on for an evidence scene, or -1
ChooseIndex(existing, n, used) ==
    IF existing >= 0 /\ existing < n /\ existing \notin used
    THEN existing
    ELSE LowestUnused(n, used)

\* mutant: the primary element is put before the elements the plan listed
CleanEvidenceKeepingOthers(s, n, used) ==
    LET k == KindOf(s.type)
        idx == ChooseIndex(FirstIdx(s.elems, k), n, used)
    IN IF n <= 0 \/ idx = -1
       THEN <<Demote(s), used>>
       ELSE <<[s EXCEPT !.elems = <<Elem(0, k, idx, 0, PrimaryElemTime(s))>>
                                    \o SelectSeq(@, LAMBDA e : e.type # k)],
              used \cup {idx}>>

\* FIX 0.6 for one evidence scene of kind k with n assets of that kind and
\* the indices "used" by earlier scenes: <<scene, used'>>
CleanEvidenceScene(s, n, used) ==
    LET k == KindOf(s.type)
        idx == ChooseIndex(FirstIdx(s.elems, k), n, used)
    IN IF n <= 0 \/ idx = -1
       THEN <<Demote(s), used>>
       ELSE <<[s EXCEPT !.elems = <<Elem(0, k, idx, 0, PrimaryElemTime(s))>>],
              used \cup {idx}>>

RECURSIVE CleanEvidenceFrom(_, _, _)
CleanEvidenceFrom(ss, n, used) ==
    IF ss = <<>> THEN <<>>
    ELSE LET s == Head(ss)
             k == KindOf(s.type)
         IN IF k = ""
            THEN <<s>> \o CleanEvidenceFrom(Tail(ss), n, used)
            ELSE LET r == CleanEvidenceScene(s, n[k], used[k])
                 IN <<r[1]>> \o CleanEvidenceFrom(Tail(ss), n, [used EXCEPT ![k] = r[2]])

NoneUsed == [reddit |-> {}, youtube |-> {}, graph |-> {}]

\* FIX 0.6: evidence scenes hold only their primary element, with a valid
\* index no earlier scene of the kind holds
CleanEvidence(ss, n) == CleanEvidenceFrom(ss, n, NoneUsed)

\* FIX 1 / FIX 2 / FIX 3.5 (youtube): the inner loop over the elements the
\* scene had when the loop started: <<scene, used'>>
RECURSIVE DedupScene(_, _, _, _)
DedupScene(s, toVisit, kind, used) ==
    IF toVisit = <<>> THEN <<s, used>>
    ELSE LET e == Head(toVisit)
         IN IF e.type # kind
            THEN DedupScene(s, Tail(toVisit), kind, used)
            ELSE IF e.idx \in used
            THEN LET left == SelectSeq(s.elems,
                                LAMBDA x : x.type # kind \/ x.idx # e.idx)
                     s2 == [s EXCEPT !.elems = left,
                                     !.type = IF left = <<>> THEN "gameplay_icons" ELSE @]
                 IN DedupScene(s2, Tail(toVisit), kind, used)
            ELSE DedupScene(s, Tail(toVisit), kind, used \cup {e.idx})

RECURSIVE DedupFrom(_, _, _)
DedupFrom(ss, sceneType, used) ==
    IF ss = <<>> THEN <<>>
    ELSE IF Head(ss).type # sceneType
    THEN <<Head(ss)>> \o DedupFrom(Tail(ss), sceneType, used)
    ELSE LET r == DedupScene(Head(ss), Head(ss).elems, KindOf(sceneType), used)
         IN <<r[1]>> \o DedupFrom(Tail(ss), sceneType, r[2])

\* FIX 1, FIX 2, FIX 3.5 (youtube) in the order the code runs them
RemoveDuplicateIndices(ss) ==
    DedupFrom(DedupFrom(DedupFrom(ss, "data_graph", {}), "reddit_evidence", {}),
              "youtube_evidence", {})

MaxGameplay == 4500
MaxGraph == 1500
MaxReddit == 2000
MaxYoutube == 1500
MaxTitle == 1000
MaxMixed == 2000
MaxOther == 3000

\* MAX_DURATION.get(scene_type, 30)
MaxDuration(sceneType) ==
    CASE sceneType = "gameplay_icons" -> MaxGameplay
      [] sceneType = "data_graph" -> MaxGraph
      [] sceneType = "reddit_evidence" -> MaxReddit
      [] sceneType = "youtube_evidence" -> MaxYoutube
      [] sceneType = "text_statement" -> MaxTitle
      [] sceneType = "mixed_evidence" -> MaxMixed
      [] OTHER -> MaxOther

CappedTypes == {"data_graph", "reddit_evidence", "youtube_evidence"}

\* num_splits = int(actual_dur / max_dur) + 1
NumSplits(dur, maxDur) == (dur \div maxDur) + 1

\* original_start + j * split_dur, with split_dur = actual_dur / num_splits
SplitBound(s, n, j) == s.start + (j * Dur(s)) \div n

\* mutant: the upper bound of the range is included
ElemsInClosedRange(es, newStart, newEnd) ==
    SelectSeq(es, LAMBDA e : newStart <= e.ts /\ e.ts <= newEnd)

\* elements of the original scene whose timestamp falls in [newStart, newEnd)
ElemsInRange(es, newStart, newEnd) ==
    SelectSeq(es, LAMBDA e : newStart <= e.ts /\ e.ts < newEnd)

\* the sub-scenes replacing an over-long scene that is not capped
SplitScene(s) ==
    LET n == NumSplits(Dur(s), MaxDuration(s.type))
    IN Tuple([j \in 1..n |->
                  [s EXCEPT !.start = SplitBound(s, n, j - 1),
                            !.end = SplitBound(s, n, j),
                            !.elems = ElemsInRange(s.elems, SplitBound(s, n, j - 1),
                                                   SplitBound(s, n, j))]])

CapOrSplit(s) ==
    IF Dur(s) > MaxDuration(s.type)
    THEN IF s.type \in CappedTypes
         THEN <<[s EXCEPT !.end = s.start + MaxDuration(s.type)]>>
         ELSE SplitScene(s)
    ELSE <<s>>

\* FIX 3: cap over-long evidence scenes, split the other over-long scenes,
\* then renumber
EnforceMaxDuration(ss) ==
    Renumber(Concat(Tuple([i \in 1..Len(ss) |-> CapOrSplit(ss[i])])))

\* a split whose sub-scene length is not a whole number of centiseconds
SplitRounds(ss) ==
    \E i \in 1..Len(ss) :
        /\ Dur(ss[i]) > MaxDuration(ss[i].type)
        /\ ss[i].type \notin CappedTypes
        /\ Dur(ss[i]) % NumSplits(Dur(ss[i]), MaxDuration(ss[i].type)) # 0

ElemLead == 50
ElemTail == 200
ForcedDuration == 200

\* [e.get('timestamp', 0) for e in elements if e.get('timestamp')]
TruthyTimes(es) == {es[k].ts : k \in {k \in 1..Len(es) : es[k].ts # 0}}

\* FIX 3.5 for one scene of non-positive duration
RepairDuration(s) ==
    IF Dur(s) > 0 THEN s
    ELSE IF s.start > s.end
    THEN IF TruthyTimes(s.elems) # {}
         THEN [s EXCEPT !.start = Max2(0, SetMin(TruthyTimes(s.elems)) - ElemLead),
                        !.end = SetMax(TruthyTimes(s.elems)) + ElemTail]
         ELSE [s EXCEPT !.start = s.end, !.end = s.start]
    ELSE [s EXCEPT !.end = s.start + ForcedDuration]

\* FIX 3.5: repair non-positive durations, remove what could not be
\* repaired, renumber
FixNegativeDurations(ss) ==
    Renumber(SelectSeq(Tuple([i \in 1..Len(ss) |-> RepairDuration(ss[i])]),
                       LAMBDA s : Dur(s) > 0))

GapTolerance == 5
StartTolerance == 1
EndTolerance == 50

\* a loop that leaves every scene as it is
LeaveGaps(ss) == ss

\* the loop of FIX 4 over consecutive scenes: only the earlier scene's end moves
CloseGaps(ss) ==
    Tuple([i \in 1..Len(ss) |->
              IF i < Len(ss)
                 /\ (ss[i + 1].start - ss[i].end > GapTolerance
                     \/ ss[i + 1].start - ss[i].end < 0 - GapTolerance)
              THEN [ss[i] EXCEPT !.end = ss[i + 1].start]
              ELSE ss[i]])

\* the first scene is moved to 0 and its elements shifted with it
StartAtZero(ss) ==
    IF ss[1].start > StartTolerance
    THEN [ss EXCEPT ![1] =
            [@ EXCEPT !.start = 0,
                      !.elems = Tuple([k \in 1..Len(ss[1].elems) |->
                                          [ss[1].elems[k] EXCEPT !.ts = Max2(0, @ - ss[1].start)]])]]
    ELSE ss

ExtendLast(ss, totalDuration) ==
    IF ss[Len(ss)].end < totalDuration - EndTolerance
    THEN [ss EXCEPT ![Len(ss)].end = totalDuration]
    ELSE ss

\* FIX 4: sort by start, close gaps and overlaps, start at 0, cover the end
CoverFullDuration(ss, totalDuration) ==
    IF ss = <<>> THEN ss
    ELSE ExtendLast(StartAtZero(CloseGaps(SortByStart(ss))), totalDuration)

\* last_scene['end_time'] > total_duration * 1.1
NeedsScaling(ss, totalDuration) ==
    ss # <<>> /\ 10 * ss[Len(ss)].end > 11 * totalDuration

\* x * scale_factor, scale_factor = total_duration / last_scene['end_time']
Scaled(x, totalDuration, lastEnd) == (x * totalDuration) \div lastEnd

\* FIX 5: scale every time when the timeline overruns by more than 10%
ScaleToDuration(ss, totalDuration) ==
    IF ~NeedsScaling(ss, totalDuration) THEN ss
    ELSE LET lastEnd == ss[Len(ss)].end
         IN Tuple([i \in 1..Len(ss) |->
                      [ss[i] EXCEPT
                          !.start = Scaled(@, totalDuration, lastEnd),
                          !.end = Scaled(@, totalDuration, lastEnd),
                          !.elems = Tuple([k \in 1..Len(ss[i].elems) |->
                                    [ss[i].elems[k] EXCEPT !.ts = Scaled(@, totalDuration, lastEnd)]])]])

\* a scaled time that is not a whole number of centiseconds
ScaleRounds(ss, totalDuration) ==
    /\ NeedsScaling(ss, totalDuration)
    /\ \E i \in 1..Len(ss) :
          \/ (ss[i].start * totalDuration) % ss[Len(ss)].end # 0
          \/ (ss[i].end * totalDuration) % ss[Len(ss)].end # 0
          \/ \E k \in 1..Len(ss[i].elems) :
                (ss[i].elems[k].ts * totalDuration) % ss[Len(ss)].end # 0

\* scene_duration / 2 of FIX 0.6 that is not a whole number of centiseconds
PrimaryRounds(ss) ==
    \E i \in 1..Len(ss) :
        /\ KindOf(ss[i].type) # ""
        /\ Dur(ss[i]) <= ShortSceneDur
        /\ Dur(ss[i]) \div 2 >= ElemMinInset
        /\ Dur(ss[i]) % 2 # 0

----------------------------------------------------------------------------
(* Plans handed to _validate_timeline.  The planner is an LLM: a plan is   *)
(* any list of scenes, so the scenes are drawn from a pool that holds the  *)
(* malformed shapes the FIX blocks exist for.                              *)

MaxPlanScenes == 3

Icon(k, ts) == Elem(0, "icon", -1, k, ts)

PlanPool ==
    { Scene(0, 0, Cs(6), "text_statement", <<>>),
      Scene(0, Cs(6), Cs(12), "reddit_evidence", <<Elem(0, "reddit", 0, 0, 630)>>),
      Scene(0, Cs(12), Cs(20), "reddit_evidence",
            <<Elem(0, "reddit", 0, 0, 1230), Icon(1, Cs(13))>>),
      Scene(0, Cs(10), Cs(60), "gameplay_icons",
            <<Icon(1, Cs(12)), Icon(2, Cs(35)), Icon(3, Cs(70))>>),
      Scene(0, Cs(6), Cs(50), "gameplay_icons", <<Icon(2, Cs(20))>>),
      Scene(0, Cs(9), Cs(8), "gameplay_icons", <<Icon(3, 1050)>>),
      Scene(0, Cs(60), Cs(60), "data_graph", <<Elem(0, "graph", 5, 0, Cs(60))>>),
      Scene(0, Cs(20), Cs(45), "mixed_evidence",
            <<Elem(0, "youtube", 0, 0, Cs(21)), Icon(1, Cs(22))>>),
      Scene(0, Cs(64), 6450, "youtube_evidence", <<Elem(0, "youtube", 0, 0, 6410)>>) }

Plans ==
    UNION { { Renumber(p) : p \in [1..n -> PlanPool] } : n \in 1..MaxPlanScenes }

PlanDurations == {Cs(10), Cs(70)}

AssetCounts ==
    { [reddit |-> 0, youtube |-> 0, graph |-> 0],
      [reddit |-> 1, youtube |-> 1, graph |-> 1],
      [reddit |-> 2, youtube |-> 1, graph |-> 1] }

InitValidate ==
    /\ NoFiller
    /\ NoCall
    /\ pc = "v_title"
    /\ scenes \in Plans
    /\ total \in PlanDurations
    /\ numAssets \in AssetCounts
    /\ prev = <<>>
    /\ pass = 1
    /\ snap = <<>>
    /\ rounded = FALSE
    /\ sentence_timings = <<>>
    /\ available_keywords = <<>>
    /\ assets = [reddit |-> <<>>, youtube |-> <<>>, graphs |-> <<>>]
    /\ segments = <<>>
    /\ keyword_time_map = {}
    /\ precollected = <<>>
    /\ evidence_scenes = <<>>
    /\ title_card_end = 0

\* FIX 0, 0.1, 0.2
ValidateTypes ==
    /\ pc = "v_title"
    /\ scenes' = ConvertMixed(OnlyFirstIsTitle(EnforceTitleCard(scenes)))
    /\ prev' = scenes
    /\ pc' = "v_past"
    /\ UNCHANGED <<cvars, gvars, total, numAssets, pass, snap, rounded, avars>>

\* FIX 0.5
ValidateVoiceoverEnd ==
    /\ pc = "v_past"
    /\ scenes' = RemovePastVoiceover(scenes, total)
    /\ prev' = scenes
    /\ pc' = "v_clean"
    /\ UNCHANGED <<cvars, gvars, total, numAssets, pass, snap, rounded, avars>>

\* FIX 0.6, then FIX 1, FIX 2 and FIX 3.5 (youtube): the index repairs
ValidateIndices ==
    /\ pc = "v_clean"
    /\ scenes' = RemoveDuplicateIndices(CleanEvidence(scenes, numAssets))
    /\ rounded' = (rounded \/ PrimaryRounds(scenes))
    /\ prev' = scenes
    /\ pc' = "v_max"
    /\ UNCHANGED <<cvars, gvars, total, numAssets, pass, snap, avars>>

\* FIX 3
ValidateMaxDuration ==
    /\ pc = "v_max"
    /\ scenes' = EnforceMaxDuration(scenes)
    /\ rounded' = (rounded \/ SplitRounds(scenes))
    /\ prev' = scenes
    /\ pc' = "v_neg"
    /\ UNCHANGED <<cvars, gvars, total, numAssets, pass, snap, avars>>

\* FIX 3.5 (negative duration)
ValidateDurations ==
    /\ pc = "v_neg"
    /\ scenes' = FixNegativeDurations(scenes)
    /\ prev' = scenes
    /\ pc' = "v_cover"
    /\ UNCHANGED <<cvars, gvars, total, numAssets, pass, snap, rounded, avars>>

\* FIX 4
ValidateCoverage ==
    /\ pc = "v_cover"
    /\ scenes' = CoverFullDuration(scenes, total)
    /\ prev' = scenes
    /\ pc' = "v_scale"
    /\ UNCHANGED <<cvars, gvars, total, numAssets, pass, snap, rounded, avars>>

\* FIX 5; FIX 6, 7 and 8 only print
ValidateScale ==
    /\ pc = "v_scale"
    /\ scenes' = ScaleToDuration(scenes, total)
    /\ rounded' = (rounded \/ ScaleRounds(scenes, total))
    /\ prev' = scenes
    /\ pc' = "v_done"
    /\ UNCHANGED <<cvars, gvars, total, numAssets, pass, snap, avars>>

\* _validate_timeline applied to the timeline it has just returned
ValidateAgain ==
    /\ pc = "v_done"
    /\ pass = 1
    /\ snap' = scenes
    /\ pass' = 2
    /\ prev' = scenes
    /\ pc' = "v_title"
    /\ UNCHANGED <<cvars, gvars, scenes, total, numAssets, rounded, avars>>

NextValidate ==
    \/ ValidateTypes
    \/ ValidateVoiceoverEnd
    \/ ValidateIndices
    \/ ValidateMaxDuration
    \/ ValidateDurations
    \/ ValidateCoverage
    \/ ValidateScale
    \/ ValidateAgain

SpecValidate == InitValidate /\ [][NextValidate]_vars

DoneFirst == pc = "v_done" /\ pass = 1
DoneSecond == pc = "v_done" /\ pass = 2

----------------------------------------------------------------------------
(* Claims about _validate_timeline, checked under SpecValidate *)

\* the scenes of ss before position j that have the scene type ty
EarlierOfType(ss, j, ty) == {i \in 1..(j - 1) : ss[i].type = ty}

\* the asset indices the scenes of ss before position j of type ty hold
TakenBefore(ss, j, ty) ==
    {FirstIdx(ss[i].elems, KindOf(ty)) : i \in EarlierOfType(ss, j, ty)}

\* positions i < j of two evidence scenes of one kind that entered the index
\* repair referencing the same asset index
SameIndexPairs ==
    {p \in (1..Len(prev)) \X (1..Len(prev)) :
        /\ p[1] < p[2]
        /\ KindOf(prev[p[1]].type) # ""
        /\ prev[p[1]].type = prev[p[2]].type
        /\ FirstIdx(prev[p[1]].elems, KindOf(prev[p[1]].type)) >= 0
        /\ FirstIdx(prev[p[1]].elems, KindOf(prev[p[1]].type))
             = FirstIdx(prev[p[2]].elems, KindOf(prev[p[2]].type))}

IsDemoted(s) == s.type = "gameplay_icons" /\ s.elems = <<>>

PartsOf(p) ==
    IF Dur(p) > MaxDuration(p.type) /\ p.type \notin CappedTypes
    THEN (Dur(p) \div MaxDuration(p.type)) + 1
    ELSE 1

RECURSIVE PartsBefore(_, _)
PartsBefore(ss, i) == IF i <= 1 THEN 0 ELSE PartsBefore(ss, i - 1) + PartsOf(ss[i - 1])

\* the scenes that stand, after FIX 3, in the place of the i-th scene before it
Pieces(i) == Tuple([j \in 1..PartsOf(prev[i]) |-> scenes[PartsBefore(prev, i) + j]])

Occurrences(es, e) == Cardinality({k \in 1..Len(es) : es[k] = e})

RECURSIVE OccurrencesIn(_, _)
OccurrencesIn(ps, e) ==
    IF ps = <<>> THEN 0 ELSE Occurrences(Head(ps).elems, e) + OccurrencesIn(Tail(ps), e)

\* the ambient scenes FIX 3 splits
LongAmbient == {i \in 1..Len(prev) :
                    prev[i].type = "gameplay_icons" /\ Dur(prev[i]) > MaxGameplay}

\* the sub-scenes ps partition the interval of p into consecutive pieces of
\* equal length (to the centisecond), each at most 45 s long
PartitionsInterval(ps, p) ==
    /\ Len(ps) >= 2
    /\ ps[1].start = p.start
    /\ ps[Len(ps)].end = p.end
    /\ \A j \in 1..(Len(ps) - 1) : ps[j].end = ps[j + 1].start
    /\ \A j \in 1..Len(ps) :
          /\ ps[j].type = "gameplay_icons"
          /\ Dur(ps[j]) > 0
          /\ Dur(ps[j]) <= MaxGameplay
          /\ \A k \in 1..Len(ps) :
                /\ Abs(Dur(ps[j]) - Dur(ps[k])) <= 1
                /\ Dur(p) % Len(ps) = 0 => Dur(ps[j]) = Dur(ps[k])
    /\ \A j \in 1..Len(ps) : \A k \in 1..Len(ps[j].elems) :
          /\ ps[j].start <= ps[j].elems[k].ts
          /\ ps[j].elems[k].ts < ps[j].end
          /\ Occurrences(p.elems, ps[j].elems[k]) > 0

\* C8 as stated: an ambient scene longer than 45 s is replaced by equal
\* consecutive sub-scenes partitioning its interval, and every element of the
\* scene is in exactly one sub-scene: none is lost or duplicated.
C8_SplitKeepsEveryElement ==
    pc = "v_neg" =>
        \A i \in LongAmbient :
            /\ PartitionsInterval(Pieces(i), prev[i])
            /\ \A m \in 1..Len(prev[i].elems) :
                  OccurrencesIn(Pieces(i), prev[i].elems[m])
                    = Occurrences(prev[i].elems, prev[i].elems[m])

\* C8 amended: an ambient scene longer than 45 s is replaced by consecutive
\* sub-scenes of equal length, each at most 45 s, that partition its interval;
\* an element whose timestamp lies in the scene's [start, end) is in exactly
\* one sub-scene, the one whose [start, end) contains it, and an element whose
\* timestamp lies outside the scene's interval is in none.
C8_SplitPartitionsByTimestamp ==
    pc = "v_neg" =>
        \A i \in LongAmbient :
            /\ PartitionsInterval(Pieces(i), prev[i])
            /\ \A m \in 1..Len(prev[i].elems) :
                  OccurrencesIn(Pieces(i), prev[i].elems[m])
                    = (IF prev[i].start <= prev[i].elems[m].ts
                          /\ prev[i].elems[m].ts < prev[i].end
                       THEN Occurrences(prev[i].elems, prev[i].elems[m])
                       ELSE 0)

\* a 50 s ambient scene was split into two 25 s scenes that both got elements
C8_Witness ==
    /\ pc = "v_neg"
    /\ \E i \in LongAmbient :
          /\ Dur(prev[i]) = Cs(50)
          /\ Len(Pieces(i)) = 2
          /\ Dur(Pieces(i)[1]) = Cs(25)
          /\ Dur(Pieces(i)[2]) = Cs(25)
          /\ Pieces(i)[1].elems # <<>>
          /\ Pieces(i)[2].elems # <<>>

\* C9 as stated: _validate_timeline applied to the timeline it returned, with
\* the same total duration and asset counts, returns it unchanged (stated for
\* the runs in which no time was rounded).
C9_Idempotent ==
    (DoneSecond /\ ~rounded) => scenes = snap

\* C10 as stated: every scene of the timeline _validate_timeline returns has
\* end_time > start_time.
C10_PositiveDurations ==
    DoneFirst => \A i \in 1..Len(scenes) : scenes[i].end > scenes[i].start

----------------------------------------------------------------------------
(* Texts: str.lower, str.strip, re.sub and the "in" operator of Python *)

LowerLetters ==
    <<"a", "b", "c", "d", "e", "f", "g", "h", "i", "j", "k", "l", "m",
      "n", "o", "p", "q", "r", "s", "t", "u", "v", "w", "x", "y", "z">>

UpperLetters ==
    <<"A", "B", "C", "D", "E", "F", "G", "H", "I", "J", "K", "L", "M",
      "N", "O", "P", "Q", "R", "S", "T", "U", "V", "W", "X", "Y", "Z">>

DigitChars == {"0", "1", "2", "3", "4", "5", "6", "7", "8", "9"}

\* the characters kept by re.sub(r'[^a-z0-9 ]+', '', ...)
NormChars == {LowerLetters[i] : i \in 1..26} \cup DigitChars \cup {" "}

\* str.lower of one character
LowerChar(c) ==
    IF \E i \in 1..26 : UpperLetters[i] = c
    THEN LowerLetters[CHOOSE i \in 1..26 : UpperLetters[i] = c]
    ELSE c

\* str.lower
Lower(t) == Tuple([i \in 1..Len(t) |-> LowerChar(t[i])])

\* str.strip
RECURSIVE LStrip(_)
LStrip(t) == IF t # <<>> /\ Head(t) = " " THEN LStrip(Tail(t)) ELSE t

RECURSIVE RStrip(_)
RStrip(t) ==
    IF t # <<>> /\ t[Len(t)] = " " THEN RStrip(SubSeq(t, 1, Len(t) - 1)) ELSE t

Strip(t) == RStrip(LStrip(t))

\* _norm_text: re.sub(r'[^a-z0-9 ]+', '', text.lower()).strip()
NormText(t) == Strip(SelectSeq(Lower(t), LAMBDA c : c \in NormChars))

\* text.translate(str.maketrans('', '', string.punctuation)): the texts of the
\* model hold letters, digits, spaces and ASCII punctuation only
StripPunct(t) == SelectSeq(t, LAMBDA c : c \in NormChars \/ LowerChar(c) # c)

\* p in t
Contains(t, p) ==
    \E i \in 0..(Len(t) - Len(p)) : SubSeq(t, i + 1, i + Len(p)) = p

\* t.find(p): lowest 0-based index, -1 when absent
Find(t, p) ==
    IF Contains(t, p)
    THEN SetMin({i \in 0..(Len(t) - Len(p)) : SubSeq(t, i + 1, i + Len(p)) = p})
    ELSE -1

----------------------------------------------------------------------------
(* ScenePlanner._fill_empty_scenes *)

\* the keywords of the script analyzer, by the number an element's kw holds
Word(k) ==
    CASE k = 1 -> <<"e", "d", "g", "a", "r">>
      [] k = 2 -> <<"w", "e", "a", "k">>
      [] k = 3 -> <<"r", "a", "g", "e">>
      [] k = 4 -> <<"s", "t", "a", "t", "s">>
      [] k = 5 -> <<"v", "i", "d", "e", "o">>
      [] k = 6 -> <<"b", "u", "f", "f">>
      [] k = 7 -> <<"E", "d", "g", "a", "r">>
      [] OTHER -> <<>>

\* elem.get('keyword', elem.get('text', ''))
KeywordOf(e) == Word(e.kw)

\* list.sort(key=lambda e: e['timestamp']): stable insertion sort
RECURSIVE InsertByTs(_, _)
InsertByTs(sorted, e) ==
    IF sorted = <<>> THEN <<e>>
    ELSE IF Head(sorted).ts <= e.ts
         THEN <<Head(sorted)>> \o InsertByTs(Tail(sorted), e)
         ELSE <<e>> \o sorted

RECURSIVE SortByTsFrom(_, _)
SortByTsFrom(acc, es) ==
    IF es = <<>> THEN acc ELSE SortByTsFrom(InsertByTs(acc, Head(es)), Tail(es))

SortByTs(es) == SortByTsFrom(<<>>, es)

RemoveAt(seq, i) == SubSeq(seq, 1, i - 1) \o SubSeq(seq, i + 1, Len(seq))

\* used_keywords: the lower-cased keyword of every element that has one
UsedKeywords(ss) ==
    UNION { { Lower(KeywordOf(ss[i].elems[k])) :
                k \in {j \in 1..Len(ss[i].elems) : KeywordOf(ss[i].elems[j]) # <<>>} } :
            i \in 1..Len(ss) }

UnusedKeywords(ss, kws) ==
    SelectSeq(kws, LAMBDA k : Lower(Word(k.kw)) \notin UsedKeywords(ss))

GameplayTypes == {"gameplay_icons", "gameplay_only"}

SparseRate == 250
IntroRate == 150
IntroSpan == 1000
MinFillDur == 400

\* expected_elements: one per 2.5 s, one per 1.5 s for a scene starting in
\* the first 10 s, never fewer than two
ExpectedElements(s) ==
    LET base == Max2(2, Dur(s) \div SparseRate)
    IN IF s.start < IntroSpan THEN Max2(base, Dur(s) \div IntroRate) ELSE base

NeedsFilling(s) ==
    /\ s.type \in GameplayTypes
    /\ Dur(s) > MinFillDur
    /\ Len(s.elems) < ExpectedElements(s)

\* _get_kw_time: the earliest source-sentence start of the keyword, -1 (None)
\* without use_timing or without an entry in keyword_time_map
KwTime(k, useTiming, ktm) ==
    LET times == {m.time : m \in {n \in ktm : n.key = NormText(Word(k.kw))}}
    IN IF useTiming /\ times # {} THEN SetMin(times) ELSE -1

\* _pop_keyword_for_window: the position in unused_keywords of the keyword
\* popped for the window [start, end], 0 when there is none
PopIndex(unused, start, end, useTiming, ktm) ==
    LET timed == {i \in 1..Len(unused) :
                    /\ KwTime(unused[i], useTiming, ktm) # -1
                    /\ start <= KwTime(unused[i], useTiming, ktm)
                    /\ KwTime(unused[i], useTiming, ktm) <= end}
        icons == {i \in 1..Len(unused) : unused[i].display # "text"}
    IN IF useTiming /\ ktm # {} /\ timed # {}
       THEN CHOOSE i \in timed : \A j \in timed :
                \/ KwTime(unused[i], useTiming, ktm) < KwTime(unused[j], useTiming, ktm)
                \/ /\ KwTime(unused[i], useTiming, ktm) = KwTime(unused[j], useTiming, ktm)
                   /\ i <= j
       ELSE IF icons # {} THEN SetMin(icons) ELSE 0

FillUidBase(useTiming) == IF useTiming THEN 200 ELSE 100

\* the element created for a popped keyword
FillElem(k, ts, useTiming) ==
    Elem(FillUidBase(useTiming) + k.kw, IF k.display = "text" THEN "text" ELSE "icon",
         -1, k.kw, ts)

ShiftStep == 80
TooClose == 150
EndMargin == 50
GapTooClose == 120
IntroGap == 200
LateGap == 300

\* the loop "for i in range(deficit)" of one sparse scene; st holds the
\* scene's elements, unused_keywords, existing_times and the rounding flag
RECURSIVE FillSlots(_, _, _, _, _, _)
FillSlots(st, s, i, deficit, useTiming, ktm) ==
    IF i >= deficit \/ st.unused = <<>> THEN st
    ELSE LET raw == s.start + ((i + 1) * Dur(s)) \div (deficit + 1)
             ts == IF \E et \in st.times : Abs(raw - et) < TooClose
                   THEN raw + ShiftStep ELSE raw
             p == PopIndex(st.unused, s.start, s.end, useTiming, ktm)
             rnd == st.rnd \/ ((i + 1) * Dur(s)) % (deficit + 1) # 0
         IN IF ts >= s.end - EndMargin
            THEN FillSlots([st EXCEPT !.rnd = rnd], s, i + 1, deficit, useTiming, ktm)
            ELSE IF p = 0 THEN [st EXCEPT !.rnd = rnd]
            ELSE FillSlots([elems |-> Append(st.elems, FillElem(st.unused[p], ts, useTiming)),
                            unused |-> RemoveAt(st.unused, p),
                            times |-> st.times \cup {ts},
                            rnd |-> rnd],
                           s, i + 1, deficit, useTiming, ktm)

TimesOf(es) == {es[k].ts : k \in 1..Len(es)}

\* the count-based pass over scenes_to_fill; acc holds the scenes, the
\* unused keywords and the rounding flag
RECURSIVE FillSparse(_, _, _, _)
FillSparse(acc, i, useTiming, ktm) ==
    IF i > Len(acc.ss) THEN acc
    ELSE IF ~NeedsFilling(acc.ss[i]) THEN FillSparse(acc, i + 1, useTiming, ktm)
    ELSE LET s == acc.ss[i]
             st == FillSlots([elems |-> s.elems, unused |-> acc.unused,
                              times |-> TimesOf(s.elems), rnd |-> acc.rnd],
                             s, 0, ExpectedElements(s) - Len(s.elems), useTiming, ktm)
             es == IF Len(st.elems) > Len(s.elems) THEN SortByTs(st.elems) ELSE s.elems
         IN FillSparse([ss |-> [acc.ss EXCEPT ![i].elems = es],
                        unused |-> st.unused, rnd |-> st.rnd],
                       i + 1, useTiming, ktm)

GapThreshold(s) == IF s.start < IntroSpan THEN IntroGap ELSE LateGap

\* the sorted distinct timestamps of a scene's elements
RECURSIVE Ascending(_)
Ascending(S) ==
    IF S = {} THEN <<>> ELSE <<SetMin(S)>> \o Ascending(S \ {SetMin(S)})

\* gaps: the stretches longer than the threshold before, between and after
\* the scene's elements
GapsOf(s) ==
    LET times == Ascending(TimesOf(s.elems))
        n == Len(times)
        lead == IF times[1] - s.start > GapThreshold(s)
                THEN <<<<s.start, times[1]>>>> ELSE <<>>
        mid == Concat(Tuple([k \in 1..(n - 1) |->
                          IF times[k + 1] - times[k] > GapThreshold(s)
                          THEN <<<<times[k], times[k + 1]>>>> ELSE <<>>]))
        trail == IF s.end - times[n] > GapThreshold(s)
                 THEN <<<<times[n], s.end>>>> ELSE <<>>
    IN lead \o mid \o trail

\* the loop "for i in range(num_to_add)" of one gap
RECURSIVE FillGapSlots(_, _, _, _, _, _, _)
FillGapSlots(st, s, gap, i, num, useTiming, ktm) ==
    IF i >= num \/ st.unused = <<>> THEN st
    ELSE LET len == gap[2] - gap[1]
             ts == gap[1] + ((i + 1) * len) \div (num + 1)
             p == PopIndex(st.unused, gap[1], gap[2], useTiming, ktm)
             rnd == st.rnd \/ ((i + 1) * len) % (num + 1) # 0
         IN IF \/ ts >= s.end - EndMargin
               \/ \E et \in st.times : Abs(ts - et) < GapTooClose
            THEN FillGapSlots([st EXCEPT !.rnd = rnd], s, gap, i + 1, num, useTiming, ktm)
            ELSE IF p = 0 THEN [st EXCEPT !.rnd = rnd]
            ELSE FillGapSlots([elems |-> Append(st.elems, FillElem(st.unused[p], ts, useTiming)),
                               unused |-> RemoveAt(st.unused, p),
                               times |-> st.times \cup {ts},
                               rnd |-> rnd],
                              s, gap, i + 1, num, useTiming, ktm)

\* the loop over the gaps of one scene
RECURSIVE FillGapsOf(_, _, _, _, _)
FillGapsOf(st, s, gaps, useTiming, ktm) ==
    IF gaps = <<>> \/ st.unused = <<>> THEN st
    ELSE LET gap == Head(gaps)
             num == Min2(Max2(1, (gap[2] - gap[1]) \div SparseRate), Len(st.unused))
             filled == FillGapSlots(st, s, gap, 0, num, useTiming, ktm)
         IN FillGapsOf([filled EXCEPT !.elems = SortByTs(filled.elems)],
                       s, Tail(gaps), useTiming, ktm)

\* the pass over the internal gaps of the gameplay scenes
RECURSIVE FillGaps(_, _, _, _)
FillGaps(acc, i, useTiming, ktm) ==
    IF i > Len(acc.ss) \/ acc.unused = <<>> THEN acc
    ELSE IF acc.ss[i].type \notin GameplayTypes \/ acc.ss[i].elems = <<>>
         THEN FillGaps(acc, i + 1, useTiming, ktm)
    ELSE LET s == acc.ss[i]
             st == FillGapsOf([elems |-> s.elems, unused |-> acc.unused,
                               times |-> TimesOf(s.elems), rnd |-> acc.rnd],
                              s, GapsOf(s), useTiming, ktm)
         IN FillGaps([ss |-> [acc.ss EXCEPT ![i].elems = st.elems],
                      unused |-> st.unused, rnd |-> st.rnd],
                     i + 1, useTiming, ktm)

\* _fill_empty_scenes: [ss: the scenes, unused: the keywords left, rnd]
FillEmptyScenes(ss, kws, useTiming, ktm) ==
    LET start == [ss |-> ss, unused |-> UnusedKeywords(ss, kws), rnd |-> FALSE]
    IN IF kws = <<>> \/ start.unused = <<>> THEN start
       ELSE FillGaps(FillSparse(start, 1, useTiming, ktm), 1, useTiming, ktm)

----------------------------------------------------------------------------
(* Inputs of the pipeline of main.py: create_timeline on the planner's     *)
(* plan, then assign_timing_with_sentences on the voiceover's sentences.   *)
(* The keywords are single words without digits and the cards carry no     *)
(* "PART n" marker.                                                        *)

MaxPosts == 2
MaxCards == 1
MaxGraphs == 1
MaxKeywords == 5

SentenceTexts ==
    << <<"B", "i", "g", " ", "n", "e", "r", "f", ".">>, <<"E", "d", "g", "a", "r", " ", "w", "e", "a", "k", ".">>, <<"F", "a", "n", "s", " ", "r", "a", "g", "e", "d", ".">>, <<"S", "t", "a", "t", "s", " ", "d", "r", "o", "p", ".">>, <<"P", "l", "a", "y", " ", "v", "i", "d", "e", "o", ".">> >>

\* generate_voiceover_by_sentence: each sentence starts where the previous
\* one ends, the first at 0
RECURSIVE Timed(_, _, _)
Timed(texts, durs, t0) ==
    IF texts = <<>> THEN <<>>
    ELSE <<[text |-> Head(texts), start |-> t0, end |-> t0 + Head(durs)]>>
         \o Timed(Tail(texts), Tail(durs), t0 + Head(durs))

SentenceDurations == {Cs(2), Cs(5)}

Scripts ==
    { Timed(SentenceTexts, <<Cs(3)>> \o d, 0) : d \in [1..4 -> SentenceDurations] }

Keyword(k, sentence, display) == [kw |-> k, sentence |-> sentence, display |-> display]

KeywordPool ==
    << Keyword(1, SentenceTexts[2], "icon"),
       Keyword(2, SentenceTexts[2], "icon"),
       Keyword(3, SentenceTexts[3], "text"),
       Keyword(4, SentenceTexts[4], "icon"),
       Keyword(5, SentenceTexts[5], "icon"),
       Keyword(6, <<>>, "icon") >>

KeywordLists == { <<>>, SubSeq(KeywordPool, 1, Min2(MaxKeywords, Len(KeywordPool))) }

Post(description, seg) == [description |-> description, matched_segment |-> seg]

RedditPool ==
    << Post(<<"P", "o", "s", "t", ":", " ", "\"", "f", "a", "n", "s", " ", "r", "a", "g", "e", "\"">>, 2),
       Post(<<"a", "n", "g", "r", "y", " ", "p", "o", "s", "t">>, 1),
       Post(<<"i", "t", " ", "s", "a", "y", "s", ":", " ", "s", "t", "a", "t", "s", " ", "d", "r", "o", "p", ".", " ", "y", "e", "s">>, 2) >>

Card(title, note, channel) == [title |-> title, note |-> note, channel |-> channel]

YoutubePool ==
    << Card(<<"P", "l", "a", "y", " ", "v", "i", "d", "e", "o">>, <<>>, <<"K", "a", "i">>),
       Card(<<"F", "a", "n", "s", " ", "r", "a", "g", "e">>, <<>>, <<"K", "a", "i">>) >>

Graph(stats, labels, hint) == [stat_texts |-> stats, labels |-> labels, segment_hint |-> hint]

GraphPool ==
    << Graph(<<<<"s", "t", "a", "t", "s">>>>, <<>>, 2),
       Graph(<<>>, <<<<"w", "i", "n", "s">>>>, 1) >>

Prefixes(pool, n) == { SubSeq(pool, 1, m) : m \in 0..Min2(n, Len(pool)) }

\* assets nothing of the script matches: no quoted or hinted phrase, no title
\* or label any sentence or segment holds, a segment number (9) the script lacks
LostAssets ==
    [reddit |-> <<Post(<<"a", "n", "g", "r", "y", " ", "p", "o", "s", "t">>, 9)>>,
     youtube |-> <<Card(<<"T", "o", "p", " ", "c", "l", "i", "p", "s">>, <<>>, <<"K", "a", "i">>)>>,
     graphs |-> <<Graph(<<>>, <<<<"w", "i", "n", "s">>>>, 9)>>]

AssetLists ==
    { [reddit |-> r, youtube |-> y, graphs |-> g] :
        r \in Prefixes(RedditPool, MaxPosts),
        y \in Prefixes(YoutubePool, MaxCards),
        g \in Prefixes(GraphPool, MaxGraphs) }
    \cup {LostAssets}

Segment(n, text, est) == [num |-> n, text |-> text, est |-> est]

ScriptSegments ==
    << Segment(1, <<"B", "i", "g", " ", "n", "e", "r", "f", ".", " ", "E", "d", "g", "a", "r", " ", "w", "e", "a", "k", ".">>, 5),
       Segment(2, <<"F", "a", "n", "s", " ", "r", "a", "g", "e", "d", ".", " ", "S", "t", "a", "t", "s", " ", "d", "r", "o", "p", ".", " ", "P", "l", "a", "y", " ", "v", "i", "d", "e", "o", ".">>, 8) >>

Said(s, text) == [s EXCEPT !.text = text]

\* plans of the LLM for this script
StoryPlans ==
    { \* a title card, keywords, one post, keywords
      << Said(Scene(1, 0, Cs(3), "text_statement", <<>>), SentenceTexts[1]),
         Said(Scene(2, Cs(3), Cs(9), "gameplay_icons",
                    <<Elem(1, "icon", -1, 1, Cs(4)), Elem(2, "icon", -1, 2, 405)>>),
              SentenceTexts[2]),
         Said(Scene(3, Cs(9), Cs(14), "reddit_evidence",
                    <<Elem(3, "reddit", 0, 0, 930)>>), SentenceTexts[3]),
         Said(Scene(4, Cs(14), Cs(20), "gameplay_icons",
                    <<Elem(4, "icon", -1, 4, Cs(15)), Elem(5, "icon", -1, 6, Cs(16))>>),
              <<"S", "t", "a", "t", "s", " ", "d", "r", "o", "p", ".", " ", "P", "l", "a", "y", " ", "v", "i", "d", "e", "o", ".">>) >>,
      \* the plan opens on keywords
      << Said(Scene(1, 0, Cs(4), "gameplay_icons",
                    <<Elem(1, "icon", -1, 1, Cs(1)), Elem(2, "icon", -1, 2, Cs(2)),
                      Elem(5, "icon", -1, 6, 250)>>),
              <<"B", "i", "g", " ", "n", "e", "r", "f", ".", " ", "E", "d", "g", "a", "r", " ", "w", "e", "a", "k", ".">>),
         Said(Scene(2, Cs(4), Cs(12), "gameplay_icons",
                    <<Elem(3, "text", -1, 3, Cs(5))>>), SentenceTexts[3]),
         Said(Scene(3, Cs(12), Cs(20), "youtube_evidence",
                    <<Elem(4, "youtube", 0, 0, 1230)>>), SentenceTexts[5]) >>,
      \* the plan opens on a post
      << Said(Scene(1, 0, Cs(5), "reddit_evidence",
                    <<Elem(1, "reddit", 0, 0, 30)>>), SentenceTexts[3]),
         Scene(2, Cs(5), Cs(20), "gameplay_icons",
               <<Elem(2, "icon", -1, 4, Cs(6)), Elem(3, "icon", -1, 5, Cs(18))>>) >>,
      \* one scene for the whole script
      << Scene(1, 0, Cs(18), "text_statement", <<>>) >> }

ScriptEstimates == {Cs(20)}

InitAssign ==
    /\ NoFiller
    /\ NoCall
    /\ pc = "v_title"
    /\ scenes \in StoryPlans
    /\ total \in ScriptEstimates
    /\ sentence_timings \in Scripts
    /\ available_keywords \in KeywordLists
    /\ assets \in AssetLists
    /\ numAssets = [reddit |-> Len(assets.reddit), youtube |-> Len(assets.youtube),
                    graph |-> Len(assets.graphs)]
    /\ segments = ScriptSegments
    /\ prev = <<>>
    /\ pass = 1
    /\ snap = <<>>
    /\ rounded = FALSE
    /\ keyword_time_map = {}
    /\ precollected = <<>>
    /\ evidence_scenes = <<>>
    /\ title_card_end = 0

\* create_timeline: _fill_empty_scenes on the validated plan
FillValidated ==
    /\ pc = "v_done"
    /\ sentence_timings # <<>>
    /\ LET filled == FillEmptyScenes(scenes, available_keywords, FALSE, keyword_time_map)
       IN /\ scenes' = filled.ss
          /\ rounded' = (rounded \/ filled.rnd)
    /\ prev' = scenes
    /\ pc' = "a_begin"
    /\ UNCHANGED <<cvars, gvars, total, numAssets, pass, snap, avars>>

----------------------------------------------------------------------------
(* ScenePlanner.assign_timing_with_sentences *)

\* re.sub(r'[^a-z0-9 ]+', '', text.lower()), not stripped
NormChars0(t) == SelectSeq(Lower(t), LAMBDA c : c \in NormChars)

\* either text holds the other
Overlapping(a, b) == Contains(b, a) \/ Contains(a, b)

\* _find_sentence_timing: position of the first sentence whose normalised
\* text holds, or is held by, the normalised text; 0 (None) without one
FindSentenceTiming(text, sents) ==
    LET hits == {i \in 1..Len(sents) : Overlapping(NormText(text), NormText(sents[i].text))}
    IN IF NormText(text) = <<>> \/ hits = {} THEN 0 ELSE SetMin(hits)

\* self.keyword_time_map, as the set of its (key, start time) entries
KeywordTimeMap(kws, sents) ==
    { [key |-> NormText(Word(kws[i].kw)),
       time |-> sents[FindSentenceTiming(kws[i].sentence, sents)].start] :
        i \in {j \in 1..Len(kws) :
                 /\ Strip(Word(kws[j].kw)) # <<>>
                 /\ Strip(kws[j].sentence) # <<>>
                 /\ FindSentenceTiming(kws[j].sentence, sents) # 0
                 /\ NormText(Word(kws[j].kw)) # <<>>} }

\* keyword_sentence_map.get(key, []): the source sentences of the keywords
\* whose normalised word is key, in the order of available_keywords
SourceSentences(key, kws) ==
    LET own == SelectSeq(kws, LAMBDA k :
                    /\ Strip(Word(k.kw)) # <<>>
                    /\ Strip(k.sentence) # <<>>
                    /\ NormText(Word(k.kw)) # <<>>
                    /\ NormText(Word(k.kw)) = key)
    IN Tuple([i \in 1..Len(own) |-> Strip(own[i].sentence)])

\* the sentences a scene's script_text covers (positions in sentence_timings)
MatchingSentences(text, sents) ==
    LET script == StripPunct(Strip(Lower(text)))
        clean(i) == StripPunct(Strip(Lower(sents[i].text)))
    IN {i \in 1..Len(sents) :
          \/ Contains(script, clean(i))
          \/ Contains(clean(i), script)
          \/ Len(clean(i)) > 20 /\ Contains(script, SubSeq(clean(i), 1, 20))}

\* timeline['scenes'].index(scene): the first scene equal to it
IndexOf(ss, s) == SetMin({j \in 1..Len(ss) : ss[j] = s}) - 1

\* the sentences used for the scene at position i: the matches, else the
\* proportional guess int((scene_idx / len(scenes)) * len(sentence_timings))
SceneSentences(ss, i, sents) ==
    IF MatchingSentences(ss[i].text, sents) # {}
    THEN MatchingSentences(ss[i].text, sents)
    ELSE {((IndexOf(ss, ss[i]) * Len(sents)) \div Len(ss)) + 1}

\* the source-sentence strategy: the sentence with the longest overlap with
\* a source sentence of the keyword (first one on ties), 0 without one
BySourceSentence(clean, kws, sents) ==
    LET srcs == SourceSentences(clean, kws)
        score(a, i) == Min2(Len(NormText(srcs[a])), Len(NormText(sents[i].text)))
        pairs == {p \in (1..Len(srcs)) \X (1..Len(sents)) :
                    /\ NormText(srcs[p[1]]) # <<>>
                    /\ Overlapping(NormText(srcs[p[1]]), NormText(sents[p[2]].text))
                    /\ score(p[1], p[2]) > 0}
        best == CHOOSE p \in pairs : \A q \in pairs :
                    \/ score(p[1], p[2]) > score(q[1], q[2])
                    \/ /\ score(p[1], p[2]) = score(q[1], q[2])
                       /\ (p[1] < q[1] \/ (p[1] = q[1] /\ p[2] <= q[2]))
    IN IF pairs = {} THEN 0 ELSE best[2]

\* the direct-substring strategy: the earliest sentence holding the keyword
ByDirectMatch(clean, sents) ==
    LET hits == {i \in 1..Len(sents) :
                    clean # <<>> /\ Contains(StripPunct(Lower(sents[i].text)), clean)}
        first == CHOOSE i \in hits : \A j \in hits :
                    \/ sents[i].start < sents[j].start
                    \/ sents[i].start = sents[j].start /\ i <= j
    IN IF hits = {} THEN 0 ELSE first

SentenceEndInset == 10
UnmatchedInset == 30

\* keyword.strip().lower() without punctuation
CleanKeyword(e) == StripPunct(Strip(Lower(KeywordOf(e))))

\* the sentence a keyword is matched to: by its source sentence, else by
\* direct substring; 0 without a match
MatchedSentence(src, clean, sents) ==
    IF src # 0 THEN src ELSE ByDirectMatch(clean, sents)

\* the character position of the keyword in its sentence, kept inside it
KeywordPos(sent, bySource, clean) ==
    Max2(0, Min2(IF bySource THEN Find(NormChars0(sent.text), clean)
                 ELSE Find(StripPunct(Lower(sent.text)), clean),
                 Len(Lower(StripPunct(sent.text))) - 1))

\* the position ratio applied without the bound at the sentence end
TimestampUncapped(sent, pos, len) ==
    IF len > 0
    THEN [ts |-> Max2(sent.start, sent.start + (pos * (sent.end - sent.start)) \div len),
          rnd |-> (pos * (sent.end - sent.start)) % len # 0]
    ELSE [ts |-> sent.start + SentenceEndInset, rnd |-> FALSE]

\* sentence start + (position / length) * sentence duration, kept inside
\* [start, end - 0.1]; rnd tells a value off the centisecond grid
TimestampIn(sent, pos, len) ==
    IF len > 0
    THEN [ts |-> Max2(sent.start,
                      Min2(sent.start + (pos * (sent.end - sent.start)) \div len,
                           sent.end - SentenceEndInset)),
          rnd |-> (pos * (sent.end - sent.start)) % len # 0]
    ELSE [ts |-> sent.start + SentenceEndInset, rnd |-> FALSE]

\* an element without a sentence keeps a timestamp inside the voiceover
RetimedIn(e, sceneStart, i, bySource, clean, sents, actualDuration) ==
    IF i = 0
    THEN [ts |-> IF 0 < e.ts /\ e.ts < actualDuration THEN e.ts
                 ELSE sceneStart + UnmatchedInset,
          rnd |-> FALSE]
    ELSE TimestampIn(sents[i], KeywordPos(sents[i], bySource, clean),
                     Len(Lower(StripPunct(sents[i].text))))

RetimedVia(e, sceneStart, src, clean, sents, actualDuration) ==
    RetimedIn(e, sceneStart, MatchedSentence(src, clean, sents), src # 0, clean,
              sents, actualDuration)

\* the new timestamp of one element of a scene retimed to start at sceneStart
RetimedTs(e, sceneStart, kws, sents, actualDuration) ==
    RetimedVia(e, sceneStart, BySourceSentence(CleanKeyword(e), kws, sents),
               CleanKeyword(e), sents, actualDuration).ts

\* a keyword position that does not fall on the centisecond grid
RetimeRounds(e, kws, sents) ==
    RetimedVia(e, 0, BySourceSentence(CleanKeyword(e), kws, sents),
               CleanKeyword(e), sents, 0).rnd

\* the scene at position i after the sentence retiming: with at least one
\* sentence in sentence_timings the time-scaling fallback is not reached
RetimeScene(ss, i, kws, sents, actualDuration) ==
    LET used == SceneSentences(ss, i, sents)
        sceneStart == IF ss[i].num = 1 THEN 0 ELSE sents[SetMin(used)].start
    IN [ss[i] EXCEPT
          !.start = sceneStart,
          !.end = sents[SetMax(used)].end,
          !.elems = Tuple([k \in 1..Len(ss[i].elems) |->
                              [ss[i].elems[k] EXCEPT
                                  !.ts = RetimedTs(ss[i].elems[k], sceneStart, kws, sents,
                                                   actualDuration)]])]

\* the loop over the scenes: a scene is retimed after the scenes before it
RECURSIVE RetimeFrom(_, _, _, _, _)
RetimeFrom(ss, i, kws, sents, actualDuration) ==
    IF i > Len(ss) THEN ss
    ELSE RetimeFrom([ss EXCEPT ![i] = RetimeScene(ss, i, kws, sents, actualDuration)],
                    i + 1, kws, sents, actualDuration)

RetimeToSentences(ss, kws, sents, actualDuration) ==
    RetimeFrom(ss, 1, kws, sents, actualDuration)

\* the guard "if not timeline['scenes']" and the keyword maps
BeginAssign ==
    /\ pc = "a_begin"
    /\ total' = sentence_timings[Len(sentence_timings)].end
    /\ keyword_time_map' = IF scenes = <<>> THEN keyword_time_map
                           ELSE KeywordTimeMap(available_keywords, sentence_timings)
    /\ pc' = IF scenes = <<>> THEN "a_done" ELSE "a_retime"
    /\ prev' = scenes
    /\ UNCHANGED <<cvars, gvars, scenes, numAssets, pass, snap, rounded, sentence_timings,
                   available_keywords, assets, segments, precollected,
                   evidence_scenes, title_card_end>>

\* the sentence retiming of scenes and elements
RetimeScenes ==
    /\ pc = "a_retime"
    /\ scenes' = RetimeToSentences(scenes, available_keywords, sentence_timings, total)
    /\ rounded' = (rounded \/ \E i \in 1..Len(scenes) : \E k \in 1..Len(scenes[i].elems) :
                        RetimeRounds(scenes[i].elems[k], available_keywords, sentence_timings))
    /\ prev' = scenes
    /\ pc' = "a_spread"
    /\ UNCHANGED <<cvars, gvars, total, numAssets, pass, snap, avars>>

IconSceneTypes == {"gameplay_icons", "gameplay_only"}
EvidenceSceneTypes == {"reddit_evidence", "youtube_evidence", "data_graph", "text_statement"}

\* the keyword elements of the gameplay scenes, in scene order
CollectFromGameplay(ss) ==
    Concat(Tuple([i \in 1..Len(ss) |->
              IF ss[i].type \in IconSceneTypes
              THEN SelectSeq(ss[i].elems, LAMBDA e : e.type \in KeywordElemTypes)
              ELSE <<>>]))

ClearGameplay(ss) ==
    Tuple([i \in 1..Len(ss) |->
              IF ss[i].type \in IconSceneTypes THEN [ss[i] EXCEPT !.elems = <<>>] ELSE ss[i]])

\* scenes that may receive a keyword element in the first redistribution
Receives(s) == s.num # 1 /\ s.type \notin EvidenceSceneTypes

DistanceTo(s, ts) ==
    IF ts < s.start THEN s.start - ts
    ELSE IF ts > s.end THEN ts - s.end
    ELSE 0

\* position of the scene the element goes to: the first receiving scene
\* holding its timestamp, else the nearest receiving scene (first on ties),
\* 0 when no scene receives elements
HomeOf(ss, ts) ==
    LET holding == {i \in 1..Len(ss) :
                        Receives(ss[i]) /\ ss[i].start <= ts /\ ts < ss[i].end}
        open == {i \in 1..Len(ss) : Receives(ss[i])}
    IN IF holding # {} THEN SetMin(holding)
       ELSE IF open = {} THEN 0
       ELSE CHOOSE i \in open : \A j \in open :
                \/ DistanceTo(ss[i], ts) < DistanceTo(ss[j], ts)
                \/ DistanceTo(ss[i], ts) = DistanceTo(ss[j], ts) /\ i <= j

RECURSIVE PlaceAll(_, _)
PlaceAll(ss, es) ==
    IF es = <<>> THEN ss
    ELSE LET h == HomeOf(ss, Head(es).ts)
         IN PlaceAll(IF h = 0 THEN ss
                     ELSE [ss EXCEPT ![h].elems = Append(ss[h].elems, Head(es))],
                     Tail(es))

SortElems(ss) == Tuple([i \in 1..Len(ss) |-> [ss[i] EXCEPT !.elems = SortByTs(ss[i].elems)]])

\* the first redistribution: keyword elements of gameplay scenes go to the
\* gameplay scene of their new timestamp
SpreadToGameplay(ss) == SortElems(PlaceAll(ClearGameplay(ss), CollectFromGameplay(ss)))

\* scenes.sort(key=lambda s: s['scene_number']): stable insertion sort
RECURSIVE InsertByNum(_, _)
InsertByNum(sorted, s) ==
    IF sorted = <<>> THEN <<s>>
    ELSE IF Head(sorted).num <= s.num
         THEN <<Head(sorted)>> \o InsertByNum(Tail(sorted), s)
         ELSE <<s>> \o sorted

RECURSIVE SortByNumFrom(_, _)
SortByNumFrom(acc, ss) ==
    IF ss = <<>> THEN acc ELSE SortByNumFrom(InsertByNum(acc, Head(ss)), Tail(ss))

SortByNum(ss) == SortByNumFrom(<<>>, ss)

MinYoutube == 400
MinReddit == 500
MinGraph == 400

\* MIN_DURATIONS.get(scene_type, 0)
MinDuration(sceneType) ==
    CASE sceneType = "youtube_evidence" -> MinYoutube
      [] sceneType = "reddit_evidence" -> MinReddit
      [] sceneType \in {"data_graph", "graph_visualization"} -> MinGraph
      [] OTHER -> 0

EnforceMinDurations(ss) ==
    Tuple([i \in 1..Len(ss) |->
              IF MinDuration(ss[i].type) > 0 /\ Dur(ss[i]) < MinDuration(ss[i].type)
              THEN [ss[i] EXCEPT !.end = ss[i].start + MinDuration(ss[i].type)]
              ELSE ss[i]])

SameStartTolerance == 10
MinLeftover == 50
RepairedDuration == 200

\* the duration left to the previous scene when two scenes start together
SharedPrevDuration(p, c) ==
    LET whole == Dur(p)
        pMin == MinDuration(p.type)
        cMin == MinDuration(c.type)
    IN IF pMin > 0 /\ cMin = 0 THEN Min2(pMin, whole)
       ELSE IF cMin > 0 /\ pMin = 0
            THEN IF whole - Min2(cMin, whole) < MinLeftover
                 THEN Min2(MinLeftover, (whole * 3) \div 10)
                 ELSE whole - Min2(cMin, whole)
       ELSE IF pMin > 0 /\ cMin > 0 THEN (whole * pMin) \div (pMin + cMin)
       ELSE whole \div 2

SharedRounds(p, c) ==
    LET whole == Dur(p)
        pMin == MinDuration(p.type)
        cMin == MinDuration(c.type)
    IN IF pMin > 0 /\ cMin = 0 THEN FALSE
       ELSE IF cMin > 0 /\ pMin = 0
            THEN whole - Min2(cMin, whole) < MinLeftover /\ (whole * 3) % 10 # 0
       ELSE IF pMin > 0 /\ cMin > 0 THEN (whole * pMin) % (pMin + cMin) # 0
       ELSE whole % 2 # 0

\* the loop "for i in range(1, len(scenes))": acc holds the scenes and the
\* rounding flag
RECURSIVE SeparateFrom(_, _)
SeparateFrom(acc, i) ==
    IF i > Len(acc.ss) THEN acc
    ELSE LET p == acc.ss[i - 1]
             c == acc.ss[i]
             together == Abs(c.start - p.start) < SameStartTolerance
             pEnd == IF together THEN p.start + SharedPrevDuration(p, c) ELSE p.end
             cEnd == IF pEnd >= c.end THEN pEnd + RepairedDuration ELSE c.end
         IN IF c.start < p.end
            THEN SeparateFrom(
                    [ss |-> [acc.ss EXCEPT ![i - 1].end = pEnd,
                                           ![i].start = pEnd,
                                           ![i].end = cEnd],
                     rnd |-> acc.rnd \/ (together /\ SharedRounds(p, c))],
                    i + 1)
            ELSE SeparateFrom(acc, i + 1)

EnsurePositive(ss) ==
    Tuple([i \in 1..Len(ss) |->
              IF Dur(ss[i]) <= 0 THEN [ss[i] EXCEPT !.end = ss[i].start + RepairedDuration]
              ELSE ss[i]])

\* sort by scene number, minimum durations, overlap fix, positive durations
SeparateScenes(ss) ==
    LET fixed == SeparateFrom([ss |-> EnforceMinDurations(SortByNum(ss)), rnd |-> FALSE], 2)
    IN [ss |-> EnsurePositive(fixed.ss), rnd |-> fixed.rnd]

\* clamp to the voiceover: scenes starting at or after its end and scenes
\* left without duration are removed
ClampToVoiceover(ss, actualDuration) ==
    LET capped == Tuple([i \in 1..Len(ss) |->
                            IF ss[i].end > actualDuration
                            THEN [ss[i] EXCEPT !.end = actualDuration] ELSE ss[i]])
    IN SelectSeq(capped, LAMBDA s : s.start < actualDuration /\ s.end > s.start)

\* the first redistribution of the keyword elements
SpreadElements ==
    /\ pc = "a_spread"
    /\ scenes' = SpreadToGameplay(scenes)
    /\ prev' = scenes
    /\ pc' = "a_separate"
    /\ UNCHANGED <<cvars, gvars, total, numAssets, pass, snap, rounded, avars>>

\* minimum durations, overlap fix and clamp to the voiceover
FixOverlaps ==
    /\ pc = "a_separate"
    /\ scenes' = ClampToVoiceover(SeparateScenes(scenes).ss, total)
    /\ rounded' = (rounded \/ SeparateScenes(scenes).rnd)
    /\ prev' = scenes
    /\ pc' = "a_collect"
    /\ UNCHANGED <<cvars, gvars, total, numAssets, pass, snap, avars>>

\* precollected_gameplay_elements: the keyword elements of every scene left
CollectKeywordElems(ss) ==
    Concat(Tuple([i \in 1..Len(ss) |->
              SelectSeq(ss[i].elems, LAMBDA e : e.type \in KeywordElemTypes)]))

IsTitleScene(s) == s.num = 1 /\ s.type = "text_statement"

\* position of the first scene numbered 1 of type text_statement, 0 (None)
TitlePosition(ss) ==
    IF \E i \in 1..Len(ss) : IsTitleScene(ss[i])
    THEN SetMin({i \in 1..Len(ss) : IsTitleScene(ss[i])})
    ELSE 0

\* the title card covers the first sentence only
BoundTitleCard(ss, sents) ==
    IF TitlePosition(ss) # 0 /\ sents # <<>>
    THEN [ss EXCEPT ![TitlePosition(ss)].start = 0,
                    ![TitlePosition(ss)].end = sents[1].end]
    ELSE ss

TitleCardEnd(ss, sents) ==
    IF TitlePosition(ss) = 0 THEN 0
    ELSE BoundTitleCard(ss, sents)[TitlePosition(ss)].end

\* the keyword elements are set aside and the title card is bounded
CollectElements ==
    /\ pc = "a_collect"
    /\ precollected' = CollectKeywordElems(scenes)
    /\ scenes' = BoundTitleCard(scenes, sentence_timings)
    /\ title_card_end' = TitleCardEnd(scenes, sentence_timings)
    /\ prev' = scenes
    /\ pc' = "a_rebuild"
    /\ UNCHANGED <<cvars, gvars, total, numAssets, pass, snap, rounded, sentence_timings,
                   available_keywords, assets, segments, keyword_time_map,
                   evidence_scenes>>

\* segment_times[seg_num] of the segment at position k: the span of the
\* sentences matching its text, else its share of the estimated durations;
\* clipped to [0, actual_duration]
RECURSIVE SumEst(_)
SumEst(segs) == IF segs = <<>> THEN 0 ELSE Head(segs).est + SumEst(Tail(segs))

SegmentTime(segs, k, sents, actualDuration) ==
    LET whole == IF SumEst(segs) = 0 THEN 1 ELSE SumEst(segs)
        before == SumEst(SubSeq(segs, 1, k - 1))
        hits == {i \in 1..Len(sents) :
                    /\ NormText(sents[i].text) # <<>>
                    /\ Overlapping(NormText(sents[i].text), NormText(segs[k].text))}
        start == IF hits # {} THEN sents[SetMin(hits)].start
                 ELSE (before * actualDuration) \div whole
        end == IF hits # {} THEN sents[SetMax(hits)].end
               ELSE ((before + segs[k].est) * actualDuration) \div whole
    IN <<Max2(0, start), Min2(actualDuration, end)>>

\* segment_times.get(seg_num, (0.0, actual_duration)): the last segment
\* carrying the number decides
SegmentTimeOf(segNum, segs, sents, actualDuration) ==
    LET own == {k \in 1..Len(segs) : segs[k].num = segNum}
    IN IF own = {} THEN <<0, actualDuration>>
       ELSE SegmentTime(segs, SetMax(own), sents, actualDuration)

HasSegment(segNum, segs) == \E k \in 1..Len(segs) : segs[k].num = segNum

QuoteChars == {"\"", "'"}

\* position of the first c in t after position i, 0 when there is none
NextOf(t, i, c) ==
    IF \E j \in (i + 1)..Len(t) : t[j] = c
    THEN SetMin({j \in (i + 1)..Len(t) : t[j] = c})
    ELSE 0

\* re.findall(r'"([^"]+)"|\'([^\']+)\'', desc) from position i on
RECURSIVE QuotedFrom(_, _)
QuotedFrom(t, i) ==
    IF i > Len(t) THEN <<>>
    ELSE IF t[i] \in QuoteChars /\ NextOf(t, i, t[i]) > i + 1
         THEN <<SubSeq(t, i + 1, NextOf(t, i, t[i]) - 1)>>
              \o QuotedFrom(t, NextOf(t, i, t[i]) + 1)
         ELSE QuotedFrom(t, i + 1)

HintTokens == << <<"s", "c", "r", "i", "p", "t", " ", "s", "a", "y", "s", ":">>, <<"m", "a", "t", "c", "h", "e", "s", ":">>, <<"m", "a", "t", "c", "h", ":">>, <<"l", "i", "n", "e", ":">>, <<"s", "a", "y", "s", ":">> >>

\* tail.split('.')[0]
UpToDot(t) == IF NextOf(t, 0, ".") = 0 THEN t ELSE SubSeq(t, 1, NextOf(t, 0, ".") - 1)

\* the phrase following a hint token, <<>> when the token is absent
HintPhrase(desc, token) ==
    IF Find(Lower(desc), token) = -1 THEN <<>>
    ELSE Strip(UpToDot(Strip(SubSeq(desc, Find(Lower(desc), token) + Len(token) + 1,
                                    Len(desc)))))

MinPhraseLen == 5

\* de-duplication by normalised text, first occurrence kept
RECURSIVE UniquePhrases(_, _)
UniquePhrases(ps, seen) ==
    IF ps = <<>> THEN <<>>
    ELSE IF NormText(Head(ps)) # <<>> /\ NormText(Head(ps)) \notin seen
         THEN <<Head(ps)>> \o UniquePhrases(Tail(ps), seen \cup {NormText(Head(ps))})
         ELSE UniquePhrases(Tail(ps), seen)

\* _extract_desc_phrases
ExtractDescPhrases(desc) ==
    LET quoted == SelectSeq(Tuple([k \in 1..Len(QuotedFrom(desc, 1)) |->
                                      Strip(QuotedFrom(desc, 1)[k])]),
                            LAMBDA q : Len(q) >= MinPhraseLen)
        hinted == SelectSeq(Tuple([k \in 1..Len(HintTokens) |-> HintPhrase(desc, HintTokens[k])]),
                            LAMBDA h : Len(h) >= MinPhraseLen)
    IN UniquePhrases(quoted \o hinted, {})

\* _match_phrase_to_sentence: position of the first sentence holding the
\* normalised phrase, 0 (None) when none does or the phrase is too short
MatchPhraseToSentence(phrase, sents) ==
    LET hits == {i \in 1..Len(sents) : Contains(NormText(sents[i].text), NormText(phrase))}
    IN IF Len(NormText(phrase)) < MinPhraseLen \/ hits = {} THEN 0 ELSE SetMin(hits)

\* the span a reddit post is anchored to
RedditAnchor(post, segs, sents, actualDuration) ==
    LET phrases == ExtractDescPhrases(post.description)
        matched == {k \in 1..Len(phrases) : MatchPhraseToSentence(phrases[k], sents) # 0}
        sent == sents[MatchPhraseToSentence(phrases[SetMin(matched)], sents)]
    IN IF matched # {} THEN <<sent.start, sent.end>>
       ELSE SegmentTimeOf(post.matched_segment, segs, sents, actualDuration)

\* the span a youtube card is anchored to, <<>> (None) when nothing matches
YoutubeAnchor(card, segs, sents, actualDuration) ==
    LET phrases == <<card.title, card.note, card.channel>>
        usable == {k \in 1..3 : Len(NormText(phrases[k])) >= MinPhraseLen}
        inSents == {i \in 1..Len(sents) : \E k \in usable :
                        Contains(NormText(sents[i].text), NormText(phrases[k]))}
        inSegs == {j \in 1..Len(segs) : \E k \in usable :
                        Contains(NormText(segs[j].text), NormText(phrases[k]))}
    IN IF inSents # {} THEN <<sents[SetMin(inSents)].start, sents[SetMin(inSents)].end>>
       ELSE IF inSegs # {}
            THEN SegmentTimeOf(segs[SetMin(inSegs)].num, segs, sents, actualDuration)
       ELSE <<>>

MinStatLen == 4

\* the span a graph is anchored to, <<>> (None) when nothing matches
GraphAnchor(graph, segs, sents, actualDuration) ==
    LET phrases == graph.stat_texts \o graph.labels
        pairs == {p \in (1..Len(sents)) \X (1..Len(phrases)) :
                    /\ Len(NormText(phrases[p[2]])) >= MinStatLen
                    /\ Contains(NormText(sents[p[1]].text), NormText(phrases[p[2]]))}
        score(p) == Len(NormText(phrases[p[2]]))
        best == CHOOSE p \in pairs : \A q \in pairs :
                    \/ score(p) > score(q)
                    \/ /\ score(p) = score(q)
                       /\ (p[1] < q[1] \/ (p[1] = q[1] /\ p[2] <= q[2]))
    IN IF pairs # {} THEN <<sents[best[1]].start, sents[best[1]].end>>
       ELSE IF HasSegment(graph.segment_hint, segs)
            THEN SegmentTimeOf(graph.segment_hint, segs, sents, actualDuration)
       ELSE <<>>

TitleGap == 10
RedditFloor == 500
RedditCeiling == 800
RedditDefaultSpan == 600
YoutubeFloor == 400
YoutubeCeiling == 600
GraphFloor == 400
GraphCeiling == 600
MinEvidenceDur == 100
PrimaryInset == 30

\* the evidence scene built on an anchor: it starts after the title card,
\* lasts the anchored span clamped to [floor, ceiling] and stops at the
\* voiceover end; <<>> when less than 1 s is left
EvidenceScene(sceneType, elem, text, anchor, span(_), floor, ceiling, titleEnd, actualDuration) ==
    LET start == Max2(titleEnd + TitleGap, anchor[1])
        target == Max2(floor, Min2(ceiling, span(start)))
        end == Min2(start + target, actualDuration)
    IN IF end - start < MinEvidenceDur THEN <<>>
       ELSE << [num |-> 0, start |-> start, end |-> end, type |-> sceneType, text |-> text,
                elems |-> <<[elem EXCEPT !.ts = Min2(start + PrimaryInset,
                                                     end - PrimaryInset)]>>] >>

RedditUid == 300
YoutubeUid == 400
GraphUid == 500

RedditScenes(posts, segs, sents, titleEnd, actualDuration) ==
    Concat(Tuple([k \in 1..Len(posts) |->
              LET anchor == RedditAnchor(posts[k], segs, sents, actualDuration)
                  span(start) == IF anchor[2] # 0 THEN anchor[2] - start ELSE RedditDefaultSpan
              IN EvidenceScene("reddit_evidence", Elem(RedditUid + k - 1, "reddit", k - 1, 0, 0),
                               posts[k].description, anchor, span,
                               RedditFloor, RedditCeiling, titleEnd, actualDuration)]))

YoutubeScenes(cards, segs, sents, titleEnd, actualDuration) ==
    Concat(Tuple([k \in 1..Len(cards) |->
              LET anchor == YoutubeAnchor(cards[k], segs, sents, actualDuration)
                  span(start) == anchor[2] - start
              IN IF anchor = <<>> THEN <<>>
                 ELSE EvidenceScene("youtube_evidence",
                                    Elem(YoutubeUid + k - 1, "youtube", k - 1, 0, 0),
                                    IF cards[k].title # <<>> THEN cards[k].title ELSE cards[k].note,
                                    anchor, span, YoutubeFloor, YoutubeCeiling,
                                    titleEnd, actualDuration)]))

GraphScenes(graphs, segs, sents, titleEnd, actualDuration) ==
    Concat(Tuple([k \in 1..Len(graphs) |->
              LET anchor == GraphAnchor(graphs[k], segs, sents, actualDuration)
                  span(start) == anchor[2] - start
              IN IF anchor = <<>> THEN <<>>
                 ELSE EvidenceScene("data_graph", Elem(GraphUid + k - 1, "graph", k - 1, 0, 0),
                                    <<>>, anchor, span, GraphFloor, GraphCeiling,
                                    titleEnd, actualDuration)]))

\* the evidence scenes are rebuilt from the assets: posts, cards, graphs
RebuildEvidence ==
    /\ pc = "a_rebuild"
    /\ evidence_scenes' =
            RedditScenes(assets.reddit, segments, sentence_timings, title_card_end, total)
         \o YoutubeScenes(assets.youtube, segments, sentence_timings, title_card_end, total)
         \o GraphScenes(assets.graphs, segments, sentence_timings, title_card_end, total)
    /\ prev' = scenes
    /\ pc' = "a_pace"
    /\ UNCHANGED <<cvars, gvars, scenes, total, numAssets, pass, snap, rounded, sentence_timings,
                   available_keywords, assets, segments, keyword_time_map,
                   precollected, title_card_end>>

IntroWindow == 1000
IntroMinGap == 100
MaxIntroEvidence == 400
MaxIntroTotal == 600
IntroExit == 10

\* one evidence scene of the intro window: capped to 4 s, kept 1 s after the
\* scene before it, and moved behind the window once 6 s of evidence are in
PaceScene(s, lastEnd, introTotal, windowEnd, actualDuration) ==
    LET dur == Min2(Dur(s), MaxIntroEvidence)
        capped == [s EXCEPT !.end = IF Dur(s) > MaxIntroEvidence
                                     THEN s.start + MaxIntroEvidence ELSE s.end]
        spaced == IF capped.start - lastEnd < IntroMinGap
                  THEN [capped EXCEPT !.start = lastEnd + IntroMinGap,
                                      !.end = Min2(lastEnd + IntroMinGap + dur, actualDuration)]
                  ELSE capped
        moved == IF introTotal + dur > MaxIntroTotal
                 THEN [spaced EXCEPT
                          !.start = Max2(spaced.start, windowEnd + IntroExit),
                          !.end = Min2(Max2(spaced.start, windowEnd + IntroExit) + dur,
                                       actualDuration)]
                 ELSE spaced
    IN [scene |-> [moved EXCEPT !.elems = Tuple([k \in 1..Len(moved.elems) |->
                              [moved.elems[k] EXCEPT !.ts = Min2(moved.start + PrimaryInset,
                                                                 moved.end - PrimaryInset)]])],
        lastEnd |-> IF introTotal + dur > MaxIntroTotal THEN lastEnd ELSE moved.end,
        introTotal |-> IF introTotal + dur > MaxIntroTotal THEN introTotal
                       ELSE introTotal + dur]

\* the loop over the evidence scenes in start order
RECURSIVE PaceFrom(_, _, _, _, _, _)
PaceFrom(es, i, lastEnd, introTotal, windowEnd, actualDuration) ==
    IF i > Len(es) THEN es
    ELSE IF es[i].start <= windowEnd
         THEN LET paced == PaceScene(es[i], lastEnd, introTotal, windowEnd, actualDuration)
              IN PaceFrom([es EXCEPT ![i] = paced.scene], i + 1, paced.lastEnd,
                          paced.introTotal, windowEnd, actualDuration)
         ELSE PaceFrom(es, i + 1, lastEnd, introTotal, windowEnd, actualDuration)

\* INTRO PACING
PaceIntroScenes(es, titleEnd, actualDuration) ==
    PaceFrom(SortByStart(es), 1, titleEnd, 0,
             Min2(actualDuration, titleEnd + IntroWindow), actualDuration)

PaceIntro ==
    /\ pc = "a_pace"
    /\ evidence_scenes' = PaceIntroScenes(evidence_scenes, title_card_end, total)
    /\ prev' = scenes
    /\ pc' = "a_gaps"
    /\ UNCHANGED <<cvars, gvars, scenes, total, numAssets, pass, snap, rounded, sentence_timings,
                   available_keywords, assets, segments, keyword_time_map,
                   precollected, title_card_end>>

GapSlack == 10

GapScene(start, end) ==
    [num |-> 0, start |-> start, end |-> end, type |-> "gameplay_icons",
     text |-> <<"(", "a", "u", "t", "o", "-", "f", "i", "l", "l", "e", "d", " ", "g", "a", "p", ")">>, elems |-> <<>>]

\* a loop that appends the scenes and covers no gap
RECURSIVE FillNothing(_, _)
FillNothing(filled, rest) ==
    IF rest = <<>> THEN filled ELSE FillNothing(Append(filled, Head(rest)), Tail(rest))

\* the loop over scenes_sorted: a gap of more than 0.1 s before a scene is
\* covered by the gameplay scene before it, or by a new gameplay scene
RECURSIVE FillBetween(_, _)
FillBetween(filled, rest) ==
    IF rest = <<>> THEN filled
    ELSE LET s == Head(rest)
             n == Len(filled)
         IN IF filled = <<>>
            THEN FillBetween(IF s.start > GapSlack THEN <<GapScene(0, s.start), s>>
                             ELSE <<s>>, Tail(rest))
            ELSE IF s.start - filled[n].end > GapSlack
                 THEN IF filled[n].type = "gameplay_icons"
                      THEN FillBetween(Append([filled EXCEPT ![n].end = s.start], s), Tail(rest))
                      ELSE FillBetween(filled \o <<GapScene(filled[n].end, s.start), s>>,
                                       Tail(rest))
            ELSE FillBetween(Append(filled, s), Tail(rest))

\* the gap at the end
FillEnd(filled, actualDuration) ==
    LET n == Len(filled)
    IN IF filled[n].end < actualDuration - GapSlack
       THEN IF filled[n].type = "gameplay_icons"
            THEN [filled EXCEPT ![n].end = actualDuration]
            ELSE Append(filled, GapScene(filled[n].end, actualDuration))
       ELSE filled

\* the title card and the evidence scenes, then gameplay in the gaps
FillGapsWithGameplay(ss, es, actualDuration) ==
    LET base == (IF TitlePosition(ss) # 0 THEN <<ss[TitlePosition(ss)]>> ELSE <<>>) \o es
    IN IF base = <<>> THEN base
       ELSE FillEnd(FillBetween(<<>>, SortByStart(base)), actualDuration)

FillGameplay ==
    /\ pc = "a_gaps"
    /\ scenes' = FillGapsWithGameplay(scenes, evidence_scenes, total)
    /\ prev' = scenes
    /\ pc' = "a_place"
    /\ UNCHANGED <<cvars, gvars, total, numAssets, pass, snap, rounded, avars>>

EvidenceBlockTypes == {"data_graph", "text_statement"}
EvidenceTypes == {"reddit_evidence", "youtube_evidence", "data_graph", "text_statement"}
OverlayTypes == {"reddit_evidence", "youtube_evidence"}
IconAllowedTypes == IconSceneTypes \cup OverlayTypes

OverlayBuffer == 75
MaxJump == 300
LandAfterStart == 20
LandBeforeEnd == 40

\* element['timestamp'] = ts: the element is one object, whichever lists hold it
SetTs(ss, uid, ts) ==
    Tuple([i \in 1..Len(ss) |->
              [ss[i] EXCEPT !.elems = Tuple([k \in 1..Len(ss[i].elems) |->
                        IF ss[i].elems[k].uid = uid
                        THEN [ss[i].elems[k] EXCEPT !.ts = ts]
                        ELSE ss[i].elems[k]])]])

\* scenes that may receive a keyword element in the final redistribution
Allowed(s) ==
    /\ s.num # 1
    /\ s.type \notin EvidenceBlockTypes
    /\ s.type \in IconAllowedTypes

InRange(s, ts) ==
    \/ s.start <= ts /\ ts < s.end
    \/ /\ s.type \in OverlayTypes
       /\ s.start - OverlayBuffer <= ts
       /\ ts < s.end + OverlayBuffer

\* twice the distance from ts to the middle of the scene
MidDistance2(s, ts) == Abs(2 * ts - (s.start + s.end))

\* position of the nearest allowed scene less than 3 s away (first on
\* ties), 0 when there is none
NearestAllowed(ss, ts) ==
    LET near == {i \in 1..Len(ss) : Allowed(ss[i]) /\ MidDistance2(ss[i], ts) < 2 * MaxJump}
    IN IF near = {} THEN 0
       ELSE CHOOSE i \in near : \A j \in near :
                \/ MidDistance2(ss[i], ts) < MidDistance2(ss[j], ts)
                \/ MidDistance2(ss[i], ts) = MidDistance2(ss[j], ts) /\ i <= j

\* one element: into the first allowed scene in range, else moved into the
\* nearest allowed scene, else dropped
PlaceOne(ss, e) ==
    LET holding == {i \in 1..Len(ss) : Allowed(ss[i]) /\ InRange(ss[i], e.ts)}
        near == NearestAllowed(ss, e.ts)
        landing == IF e.ts < ss[near].start THEN ss[near].start + LandAfterStart
                   ELSE ss[near].end - LandBeforeEnd
    IN IF holding # {}
       THEN [ss EXCEPT ![SetMin(holding)].elems = Append(ss[SetMin(holding)].elems, e)]
       ELSE IF near # 0
            THEN LET moved == SetTs(ss, e.uid, landing)
                 IN [moved EXCEPT ![near].elems =
                        Append(moved[near].elems, [e EXCEPT !.ts = landing])]
       ELSE ss

RECURSIVE PlaceFrom(_, _)
PlaceFrom(ss, es) ==
    IF es = <<>> THEN ss ELSE PlaceFrom(PlaceOne(ss, Head(es)), Tail(es))

ClearNonEvidence(ss) ==
    Tuple([i \in 1..Len(ss) |->
              IF ss[i].type \notin EvidenceTypes THEN [ss[i] EXCEPT !.elems = <<>>] ELSE ss[i]])

\* the final redistribution of the elements set aside before the rebuild
RedistributeElements(ss, collected) == PlaceFrom(ClearNonEvidence(ss), SortByTs(collected))

Redistribute ==
    /\ pc = "a_place"
    /\ scenes' = RedistributeElements(scenes, precollected)
    /\ precollected' = <<>>
    /\ prev' = scenes
    /\ pc' = "a_fill"
    /\ UNCHANGED <<cvars, gvars, total, numAssets, pass, snap, rounded, sentence_timings,
                   available_keywords, assets, segments, keyword_time_map,
                   evidence_scenes, title_card_end>>

\* _fill_empty_scenes(timeline, actual_duration, use_timing=True)
FillSparseScenes ==
    /\ pc = "a_fill"
    /\ LET filled == FillEmptyScenes(scenes, available_keywords, TRUE, keyword_time_map)
       IN /\ scenes' = filled.ss
          /\ rounded' = (rounded \/ filled.rnd)
    /\ prev' = scenes
    /\ pc' = "a_stagger"
    /\ UNCHANGED <<cvars, gvars, total, numAssets, pass, snap, avars>>

StaggerLead == 100
MinStaggerGap == 70
DropMargin == 20
ClampInset == 15
DropMark == -10000
KeepAbove == -100

\* a pass that leaves close elements where they are
NotPushed(ts, prevTime) == ts

\* if elem_time < prev_time + MIN_GAP: elem_time = prev_time + MIN_GAP
Pushed(ts, prevTime) ==
    IF ts < prevTime + MinStaggerGap THEN prevTime + MinStaggerGap ELSE ts

\* the staggering loop over the elements k.. of the scene at position i;
\* prevTime is the time of the keyword element kept last
RECURSIVE StaggerFrom(_, _, _, _)
StaggerFrom(ss, i, k, prevTime) ==
    IF k > Len(ss[i].elems) THEN ss
    ELSE LET e == ss[i].elems[k]
             pushed == Pushed(e.ts, prevTime)
             placed == IF pushed < ss[i].start THEN ss[i].start + ClampInset ELSE pushed
         IN IF e.type \notin KeywordElemTypes THEN StaggerFrom(ss, i, k + 1, prevTime)
            ELSE IF pushed >= ss[i].end - DropMargin
                 THEN StaggerFrom(SetTs(ss, e.uid, DropMark), i, k + 1, prevTime)
            ELSE StaggerFrom(SetTs(ss, e.uid, placed), i, k + 1, placed)

\* scene['elements'] = [e for e in scene['elements'] if e['timestamp'] > -1.0]
KeepPlaced(es) == SelectSeq(es, LAMBDA e : e.ts > KeepAbove)

\* the staggering pass over the scenes, in list order
RECURSIVE StaggerScenes(_, _)
StaggerScenes(ss, i) ==
    IF i > Len(ss) THEN ss
    ELSE IF ss[i].elems = <<>> THEN StaggerScenes(ss, i + 1)
    ELSE LET sorted == [ss EXCEPT ![i].elems = SortByTs(ss[i].elems)]
             staggered == StaggerFrom(sorted, i, 1, ss[i].start - StaggerLead)
         IN StaggerScenes([staggered EXCEPT ![i].elems = KeepPlaced(staggered[i].elems)],
                          i + 1)

\* staggering, then the scenes are sorted by start time and renumbered
StaggerAndNumber(ss) == Renumber(SortByStart(StaggerScenes(ss, 1)))

Stagger ==
    /\ pc = "a_stagger"
    /\ scenes' = StaggerAndNumber(scenes)
    /\ prev' = scenes
    /\ pc' = "a_done"
    /\ UNCHANGED <<cvars, gvars, total, numAssets, pass, snap, rounded, avars>>

Assigned == pc = "a_done"

NextAssign ==
    \/ ValidateTypes
    \/ ValidateVoiceoverEnd
    \/ ValidateIndices
    \/ ValidateMaxDuration
    \/ ValidateDurations
    \/ ValidateCoverage
    \/ ValidateScale
    \/ FillValidated
    \/ BeginAssign
    \/ RetimeScenes
    \/ SpreadElements
    \/ FixOverlaps
    \/ CollectElements
    \/ RebuildEvidence
    \/ PaceIntro
    \/ FillGameplay
    \/ Redistribute
    \/ FillSparseScenes
    \/ Stagger

SpecAssign == InitAssign /\ [][NextAssign]_vars

----------------------------------------------------------------------------
(* The timeline assign_timing_with_sentences returns *)

\* C1 as stated: the scenes of the returned timeline, in start-time order,
\* begin at exactly 0, end at exactly the voiceover duration, and each scene
\* ends exactly where the next one starts (stated for the runs in which no
\* time was rounded).
C1_ContiguousCoverage ==
    (Assigned /\ ~rounded /\ scenes # <<>>) =>
        /\ scenes[1].start = 0
        /\ scenes[Len(scenes)].end = total
        /\ \A i \in 1..(Len(scenes) - 1) : scenes[i].end = scenes[i + 1].start

\* C2 as stated: no two scenes of the returned timeline overlap in time; of
\* any two distinct scenes one ends at or before the start of the other.
C2_NoOverlap ==
    (Assigned /\ ~rounded) =>
        \A i, j \in 1..Len(scenes) :
            i # j => (scenes[i].end <= scenes[j].start \/ scenes[j].end <= scenes[i].start)

\* the scenes of the returned timeline that hold an element for asset idx of
\* the kind ty
ScenesUsing(ty, idx) ==
    {i \in 1..Len(scenes) :
        \E k \in 1..Len(scenes[i].elems) :
            scenes[i].elems[k].type = ty /\ scenes[i].elems[k].idx = idx}

\* C3 as stated: in the returned timeline each reddit post_index, each
\* youtube_index and each graph index is referenced by an element of at
\* most one scene.
C3_AssetUsedOnce ==
    (Assigned /\ ~rounded) =>
        \A ty \in EvidenceElemTypes : \A idx \in 0..(MaxPosts - 1) :
            Cardinality(ScenesUsing(ty, idx)) <= 1

\* C4 as stated: every element of every scene of the returned timeline is
\* timed inside its scene, start_time <= timestamp < end_time.
C4_ElementsInsideScene ==
    (Assigned /\ ~rounded) =>
        \A i \in 1..Len(scenes) : \A k \in 1..Len(scenes[i].elems) :
            /\ scenes[i].start <= scenes[i].elems[k].ts
            /\ scenes[i].elems[k].ts < scenes[i].end

\* the keyword-derived elements of a scene, in list order
KeywordElems(s) == SelectSeq(s.elems, LAMBDA e : e.type \in KeywordElemTypes)

\* the timestamp the element uid had when the staggering pass began
TimesBefore(uid) ==
    UNION { {prev[i].elems[k].ts :
                k \in {k \in 1..Len(prev[i].elems) : prev[i].elems[k].uid = uid}} :
            i \in 1..Len(prev) }

\* the element is no longer listed by the scene at position i
Removed(i, e) == \A k \in 1..Len(scenes[i].elems) : scenes[i].elems[k].uid # e.uid

C6_EvidenceDurationBounds ==
    (Assigned /\ ~rounded) =>
        \A i \in 1..Len(scenes) :
            /\ scenes[i].type = "reddit_evidence"
                  => RedditFloor <= Dur(scenes[i]) /\ Dur(scenes[i]) <= RedditCeiling
            /\ scenes[i].type = "youtube_evidence"
                  => YoutubeFloor <= Dur(scenes[i]) /\ Dur(scenes[i]) <= YoutubeCeiling
            /\ scenes[i].type = "data_graph"
                  => GraphFloor <= Dur(scenes[i]) /\ Dur(scenes[i]) <= GraphCeiling

----------------------------------------------------------------------------
(* The timeline _validate_timeline returns: order, gaps and maxima *)

Sorted(ss) == \A i \in 1..(Len(ss) - 1) : ss[i].start <= ss[i + 1].start

\* next start minus this end: positive for a gap, negative for an overlap
GapAfter(ss, i) == ss[i + 1].start - ss[i].end

\* C11 as stated: FIX 4 moves the end of a scene to the start of the next
\* one exactly when the two were more than 0.05 s apart or overlapped by more
\* than 0.05 s, and in the timeline the pass returns the scenes are in start
\* order with every consecutive pair within 0.05 s of each other (the returned
\* timeline is taken from the runs in which no time was rounded).
C11_GapsClosed ==
    /\ (pc = "v_scale" /\ scenes # <<>>) =>
          LET before == SortByStart(prev)
          IN \A i \in 1..(Len(scenes) - 1) :
                /\ scenes[i + 1].start = before[i + 1].start
                /\ scenes[i].end = IF Abs(GapAfter(before, i)) > GapTolerance
                                   THEN before[i + 1].start
                                   ELSE before[i].end
    /\ (pc = "v_done" /\ ~rounded) =>
          /\ Sorted(scenes)
          /\ \A i \in 1..(Len(scenes) - 1) : Abs(GapAfter(scenes, i)) <= GapTolerance

\* FIX 4 has closed a gap and trimmed an overlap of the same timeline
C11_Witness ==
    /\ pc = "v_scale"
    /\ ~rounded
    /\ LET before == SortByStart(prev)
       IN /\ \E i \in 1..(Len(before) - 1) :
                GapAfter(before, i) > GapTolerance /\ GapAfter(scenes, i) = 0
          /\ \E i \in 1..(Len(before) - 1) :
                GapAfter(before, i) < 0 - GapTolerance /\ GapAfter(scenes, i) = 0

\* C12 as stated: in the timeline _validate_timeline returns no data_graph,
\* reddit_evidence or youtube_evidence scene is longer than the maximum of
\* its kind.
C12_EvidenceWithinMaximum ==
    DoneFirst =>
       \A i \in 1..Len(scenes) :
          scenes[i].type \in CappedTypes => Dur(scenes[i]) <= MaxDuration(scenes[i].type)

----------------------------------------------------------------------------
(* The timeline assign_timing_with_sentences returns, continued *)

\* C13 as stated: in the timeline assign_timing_with_sentences returns no
\* scene starts at or after the voiceover duration and no scene ends after it.
C13_InsideVoiceover ==
    (Assigned /\ ~rounded) =>
       \A i \in 1..Len(scenes) : scenes[i].start < total /\ scenes[i].end <= total

\* C14 as stated: when _validate_timeline returns, and when
\* assign_timing_with_sentences returns, the scene list is in ascending
\* start_time order and the i-th scene of the list has scene_number i.
C14_OrderedAndNumbered ==
    (pc \in {"v_done", "a_done"}) =>
       /\ Sorted(scenes)
       /\ \A i \in 1..Len(scenes) : scenes[i].num = i

\* no phrase of the description is found in a sentence and the post's
\* matched_segment is not a segment of the script
UnresolvedPost(post) ==
    /\ \A k \in 1..Len(ExtractDescPhrases(post.description)) :
          MatchPhraseToSentence(ExtractDescPhrases(post.description)[k], sentence_timings) = 0
    /\ ~HasSegment(post.matched_segment, segments)

\* neither a sentence nor a segment holds the card's title, note or channel
UnresolvedCard(card) ==
    \A k \in 1..3 :
       LET phrase == NormText(<<card.title, card.note, card.channel>>[k])
       IN Len(phrase) >= MinPhraseLen =>
             /\ \A i \in 1..Len(sentence_timings) :
                   ~Contains(NormText(sentence_timings[i].text), phrase)
             /\ \A j \in 1..Len(segments) : ~Contains(NormText(segments[j].text), phrase)

\* no sentence holds a stat text or label and the segment hint is not a
\* segment of the script
UnresolvedGraph(graph) ==
    /\ \A k \in 1..Len(graph.stat_texts \o graph.labels) :
          LET phrase == NormText((graph.stat_texts \o graph.labels)[k])
          IN Len(phrase) >= MinStatLen =>
                \A i \in 1..Len(sentence_timings) :
                   ~Contains(NormText(sentence_timings[i].text), phrase)
    /\ ~HasSegment(graph.segment_hint, segments)

\* C15 as stated: an asset that no phrase ties to a sentence and whose
\* segment is unknown is referenced by no element of any scene of the
\* timeline assign_timing_with_sentences returns.
C15_UnresolvedNotPlaced ==
    (Assigned /\ ~rounded) =>
       /\ \A k \in 1..Len(assets.reddit) :
             UnresolvedPost(assets.reddit[k]) => ScenesUsing("reddit", k - 1) = {}
       /\ \A k \in 1..Len(assets.youtube) :
             UnresolvedCard(assets.youtube[k]) => ScenesUsing("youtube", k - 1) = {}
       /\ \A k \in 1..Len(assets.graphs) :
             UnresolvedGraph(assets.graphs[k]) => ScenesUsing("graph", k - 1) = {}

\* C16 as stated: in the timeline assign_timing_with_sentences returns, a
\* data_graph scene and the title card (the text_statement scene numbered 1)
\* hold no icon, text, quote or meme element.
C16_NoKeywordsOnGraphOrTitle ==
    (Assigned /\ ~rounded) =>
       \A i \in 1..Len(scenes) :
          (scenes[i].type = "data_graph" \/ IsTitleScene(scenes[i])) =>
             KeywordElems(scenes[i]) = <<>>

\* the element records a scene lists
UidsOf(s) == {s.elems[k].uid : k \in 1..Len(s.elems)}

\* the staggering pass applied to one scene on its own
StaggeredAlone(s) == StaggerScenes(<<s>>, 1)[1]

\* C17 as stated: in the timeline assign_timing_with_sentences returns no
\* element record is listed by two different scenes, and the timestamp
\* repair of the staggering pass gives every scene the elements it would
\* have if the scene were repaired on its own: repairing one scene changes
\* no element another scene lists.
C17_OneOwner ==
    (Assigned /\ ~rounded) =>
       /\ \A i, j \in 1..Len(scenes) :
             i # j => UidsOf(scenes[i]) \cap UidsOf(scenes[j]) = {}
       /\ scenes = Renumber(SortByStart(Tuple([i \in 1..Len(prev) |->
                                                  StaggeredAlone(prev[i])])))

----------------------------------------------------------------------------
(* Keyword placement on its own: the sentence retiming of                  *)
(* assign_timing_with_sentences applied to plans of keyword elements, over *)
(* scripts of one or two sentences of several lengths and durations.       *)

PlaceTexts ==
    { SentenceTexts[2],
      <<"T", "h", "e", " ", "b", "i", "g", " ", "E", "d", "g", "a", "r", " ", "i", "s", " ", "b", "a", "d", ".">> }

PlaceDurations == {20, Cs(2), Cs(10)}

PlaceScripts ==
    { Timed(<<t>>, <<d>>, 0) : t \in PlaceTexts, d \in PlaceDurations }
    \cup { Timed(<<SentenceTexts[1], t>>, <<Cs(3), d>>, 0) : t \in PlaceTexts, d \in PlaceDurations }

PlacePlans ==
    { << Scene(1, 0, Cs(3), "text_statement", <<>>),
         Scene(2, Cs(3), Cs(20), "gameplay_icons",
               <<Elem(1, "icon", -1, 1, Cs(4)), Elem(2, "text", -1, 2, Cs(5)),
                 Elem(3, "icon", -1, 6, ts)>>) >> : ts \in {0, Cs(1), Cs(30)} }

InitPlace ==
    /\ NoFiller
    /\ NoCall
    /\ pc = "a_begin"
    /\ scenes \in PlacePlans
    /\ total \in ScriptEstimates
    /\ sentence_timings \in PlaceScripts
    /\ available_keywords \in KeywordLists
    /\ assets = [reddit |-> <<>>, youtube |-> <<>>, graphs |-> <<>>]
    /\ numAssets = [reddit |-> 0, youtube |-> 0, graph |-> 0]
    /\ segments = ScriptSegments
    /\ prev = <<>>
    /\ pass = 1
    /\ snap = <<>>
    /\ rounded = FALSE
    /\ keyword_time_map = {}
    /\ precollected = <<>>
    /\ evidence_scenes = <<>>
    /\ title_card_end = 0

NextPlace ==
    \/ BeginAssign
    \/ RetimeScenes

SpecPlace == InitPlace /\ [][NextPlace]_vars

\* the sentence retiming has run
Retimed == pc = "a_spread"

\* the sentence the keyword of element e is matched to, 0 without one
SentenceOf(e) ==
    MatchedSentence(BySourceSentence(CleanKeyword(e), available_keywords, sentence_timings),
                    CleanKeyword(e), sentence_timings)

\* the sentence text in lower case without punctuation
Normalized(sent) == StripPunct(Lower(sent.text))

\* the character offset of the keyword of e in the normalised sentence, 0
\* when the sentence does not hold it
OffsetIn(sent, e) == Max2(0, Find(Normalized(sent), CleanKeyword(e)))

----------------------------------------------------------------------------
(* The gameplay coverage between the title card and the evidence scenes    *)

\* the gap fill has run
GapsFilled == pc = "a_place"

\* the title card and the evidence scenes the gap fill started from, by start
PlacedScenes ==
    SortByStart((IF TitlePosition(prev) # 0 THEN <<prev[TitlePosition(prev)]>> ELSE <<>>)
                \o evidence_scenes)

\* a new gameplay scene spans exactly [from, to]
NewAmbient(from, to) ==
    \E j \in 1..Len(scenes) :
       /\ scenes[j].type = "gameplay_icons"
       /\ scenes[j].num = 0
       /\ scenes[j].elems = <<>>
       /\ scenes[j].start = from
       /\ scenes[j].end = to

\* the placed gameplay scene s now ends at to
ExtendedAmbient(s, to) ==
    /\ s.type = "gameplay_icons"
    /\ \E j \in 1..Len(scenes) : scenes[j] = [s EXCEPT !.end = to]

LargeGaps(p) == {i \in 1..(Len(p) - 1) : p[i + 1].start - p[i].end > GapSlack}

----------------------------------------------------------------------------
(* ScenePlanner.create_timeline when the planner call yields no plan:      *)
(* _plan_with_claude returns _create_fallback_timeline(...), and           *)
(* create_timeline validates and fills it.                                 *)

MaxSegments == 3
MaxFallbackIcons == 3
IconLead == 50
IconInterval == 40
GraphLead == 50
RedditLead == 70

SegmentTypes == {"hook", "data", "evidence"}

TypedSegment(n, text, type, est) == [num |-> n, text |-> text, est |-> est, type |-> type]

\* scripts of up to MaxSegments segments; int(duration) of a short segment is 0
SegmentEstimates == {0, 5, 8}

FallbackScripts ==
    UNION { { Tuple([i \in 1..n |-> TypedSegment(i, SentenceTexts[i], ty[i], d)]) :
                ty \in [1..n -> SegmentTypes], d \in SegmentEstimates } : n \in 0..MaxSegments }

\* _determine_scene_type
DetermineSceneType(segType, graphs, posts) ==
    IF segType = "data" /\ graphs THEN "data_graph"
    ELSE IF segType = "evidence" /\ posts THEN "reddit_evidence"
    ELSE "gameplay_icons"

\* current_time when segment i is reached
RECURSIVE FallbackStart(_, _)
FallbackStart(segs, i) ==
    IF i <= 1 THEN 0 ELSE FallbackStart(segs, i - 1) + Cs(segs[i - 1].est)

FallbackUid(i, j) == 600 + 10 * i + j

\* the elements of the scene built for segment i
FallbackElems(i, type, cur, kws) ==
    IF type = "gameplay_icons"
    THEN Tuple([j \in 1..Min2(MaxFallbackIcons, Len(kws)) |->
                  Elem(FallbackUid(i, j), "icon", -1, kws[j].kw,
                       cur + IconLead + (j - 1) * IconInterval)])
    ELSE IF type = "data_graph"
    THEN <<Elem(FallbackUid(i, 0), "graph", 0, 0, cur + GraphLead)>>
    ELSE <<Elem(FallbackUid(i, 0), "reddit", 0, 0, cur + RedditLead)>>

\* the same scenes without any element
FallbackWithoutElements(segs, kws, posts, graphs) ==
    Tuple([i \in 1..Len(segs) |->
             Said(Scene(i, FallbackStart(segs, i), FallbackStart(segs, i) + Cs(segs[i].est),
                        DetermineSceneType(segs[i].type, graphs, posts), <<>>),
                  segs[i].text)])

\* _create_fallback_timeline: one scene per segment, back to back
CreateFallbackTimeline(segs, kws, posts, graphs) ==
    Tuple([i \in 1..Len(segs) |->
             Said(Scene(i, FallbackStart(segs, i), FallbackStart(segs, i) + Cs(segs[i].est),
                        DetermineSceneType(segs[i].type, graphs, posts),
                        FallbackElems(i, DetermineSceneType(segs[i].type, graphs, posts),
                                      FallbackStart(segs, i), kws)),
                  segs[i].text)])

\* whether reddit_posts can be non-empty: num_reddit counts the screenshots,
\* or the posts when there is no screenshot
PostsGiven == IF numAssets.reddit = 0 THEN {FALSE} ELSE BOOLEAN

\* the voiceover made of the script once the plan exists
FallbackVoiceovers == {Timed(SentenceTexts, <<Cs(3), Cs(2), Cs(2), Cs(2), Cs(2)>>, 0)}

InitFallback ==
    /\ NoFiller
    /\ NoCall
    /\ pc = "plan"
    /\ scenes = <<>>
    /\ segments \in FallbackScripts
    /\ total \in ScriptEstimates
    /\ sentence_timings \in FallbackVoiceovers
    /\ available_keywords \in KeywordLists
    /\ assets \in AssetLists
    /\ numAssets = [reddit |-> Len(assets.reddit), youtube |-> Len(assets.youtube),
                    graph |-> Len(assets.graphs)]
    /\ prev = <<>>
    /\ pass = 1
    /\ snap = <<>>
    /\ rounded = FALSE
    /\ keyword_time_map = {}
    /\ precollected = <<>>
    /\ evidence_scenes = <<>>
    /\ title_card_end = 0

\* _plan_with_claude when ask_json returns None
PlanFallback ==
    /\ pc = "plan"
    /\ \E posts \in PostsGiven :
          scenes' = CreateFallbackTimeline(segments, available_keywords, posts,
                                           numAssets.graph > 0)
    /\ prev' = scenes
    /\ pc' = "v_title"
    /\ UNCHANGED <<cvars, gvars, total, numAssets, pass, snap, rounded, avars>>

NextFallback ==
    \/ PlanFallback
    \/ ValidateTypes
    \/ ValidateVoiceoverEnd
    \/ ValidateIndices
    \/ ValidateMaxDuration
    \/ ValidateDurations
    \/ ValidateCoverage
    \/ ValidateScale
    \/ FillValidated

SpecFallback == InitFallback /\ [][NextFallback]_vars

\* create_timeline has returned
Planned == pc = "a_begin"

\* the steps of create_timeline in the order of the code: the plan, the FIX
\* blocks of _validate_timeline, _fill_empty_scenes, the return
CreateTimelineSteps ==
    <<"plan", "v_title", "v_past", "v_clean", "v_max", "v_neg", "v_cover", "v_scale",
      "v_done", "a_begin">>

\* scenes is the plan the fallback builds for the segments: one scene per
\* segment, back to back from 0, typed by the segment type and the assets
\* there are, holding up to three icons, or one graph or reddit element of
\* index 0
IsFallbackPlan(posts) ==
    /\ Len(scenes) = Len(segments)
    /\ \A i \in 1..Len(scenes) :
          LET s == scenes[i]
              seg == segments[i]
              icons == Min2(MaxFallbackIcons, Len(available_keywords))
          IN /\ s.num = i
             /\ s.text = seg.text
             /\ s.start = (IF i = 1 THEN 0 ELSE scenes[i - 1].end)
             /\ s.end = s.start + Cs(seg.est)
             /\ s.type = (IF seg.type = "data" /\ numAssets.graph > 0 THEN "data_graph"
                          ELSE IF seg.type = "evidence" /\ posts THEN "reddit_evidence"
                          ELSE "gameplay_icons")
             /\ s.type = "gameplay_icons" =>
                   /\ Len(s.elems) = icons
                   /\ \A j \in 1..icons :
                         /\ s.elems[j].type = "icon"
                         /\ s.elems[j].kw = available_keywords[j].kw
                         /\ s.elems[j].ts = s.start + IconLead + (j - 1) * IconInterval
             /\ s.type = "data_graph" =>
                   /\ Len(s.elems) = 1
                   /\ s.elems[1].type = "graph"
                   /\ s.elems[1].idx = 0
                   /\ s.elems[1].ts = s.start + GraphLead
             /\ s.type = "reddit_evidence" =>
                   /\ Len(s.elems) = 1
                   /\ s.elems[1].type = "reddit"
                   /\ s.elems[1].idx = 0
                   /\ s.elems[1].ts = s.start + RedditLead

----------------------------------------------------------------------------
(* The intro pacing of the evidence scenes *)

\* the intro pacing has run
Paced == pc = "a_gaps"

\* the scene starts within the 10 s after the end of the title card
InIntroWindow(s) ==
    /\ s.start >= title_card_end
    /\ s.start <= title_card_end + IntroWindow

\* the evidence scenes of the intro window, by start
IntroScenes(es) == SortByStart(SelectSeq(es, InIntroWindow))

RECURSIVE SumDur(_)
SumDur(ss) == IF ss = <<>> THEN 0 ELSE Dur(Head(ss)) + SumDur(Tail(ss))

\* the start the evidence scene holding the element uid had in es, -1 without one
StartOf(es, uid) ==
    IF \E i \in 1..Len(es) : es[i].elems[1].uid = uid
    THEN es[CHOOSE i \in 1..Len(es) : es[i].elems[1].uid = uid].start
    ELSE 0 - 1

\* C21 as stated: after the intro pacing the evidence scenes that start
\* within 10 s after the end of the title card last at most 6 s together, the
\* first of them starts at least 1 s after the title card's end and each later
\* one at least 1 s after the end of the one before it; and the pacing step
\* never gives a scene a start earlier than the one it was matched to (the
\* first part stated for the runs in which no time was rounded).
C21_IntroPaced ==
    /\ []((Paced /\ ~rounded) =>
            LET w == IntroScenes(evidence_scenes)
            IN /\ SumDur(w) <= MaxIntroTotal
               /\ w # <<>> => w[1].start - title_card_end >= IntroMinGap
               /\ \A i \in 1..(Len(w) - 1) : w[i + 1].start - w[i].end >= IntroMinGap)
    /\ [][pc = "a_pace" =>
            /\ Len(evidence_scenes') = Len(evidence_scenes)
            /\ \A i \in 1..Len(evidence_scenes') :
                  /\ StartOf(evidence_scenes, evidence_scenes'[i].elems[1].uid) >= 0
                  /\ evidence_scenes'[i].start
                        >= StartOf(evidence_scenes, evidence_scenes'[i].elems[1].uid)]_vars

----------------------------------------------------------------------------
(* The final redistribution of the keyword elements *)

\* the scene at position i lists the element uid
Lists(ss, i, uid) == \E j \in 1..Len(ss[i].elems) : ss[i].elems[j].uid = uid

\* the gameplay scenes of ss whose [start, end) holds ts
AmbientHolding(ss, ts) ==
    {i \in 1..Len(ss) : ss[i].type = "gameplay_icons" /\ ss[i].start <= ts /\ ts < ss[i].end}

\* C22 as stated: in the final redistribution a keyword element whose
\* timestamp lies inside the [start, end) of a gameplay_icons scene is put
\* into that scene, whatever evidence scenes lie next to it (stated for the
\* runs in which no time was rounded).
C22_PlacedInAmbient ==
    [][(pc = "a_place" /\ ~rounded) =>
          \A k \in 1..Len(precollected) :
             \A i \in AmbientHolding(scenes, precollected[k].ts) :
                Lists(scenes', i, precollected[k].uid)]_vars

\* the scenes of ss a keyword element may be given to
Eligible(ss) == {i \in 1..Len(ss) : Allowed(ss[i])}

\* ts is in range of no eligible scene of ss
OutOfRange(ss, ts) == \A i \in Eligible(ss) : ~InRange(ss[i], ts)

\* the eligible scenes of ss whose midpoint is within 3 s of ts
WithinJump(ss, ts) == {i \in Eligible(ss) : MidDistance2(ss[i], ts) <= 2 * MaxJump}

\* C23 as stated: in the final redistribution a keyword element whose
\* timestamp is in range of no eligible scene is given to an eligible scene
\* only if that scene is the nearest by midpoint and its midpoint is within
\* 3 s of the timestamp, and is then timed inside that scene's [start, end);
\* with no eligible scene within 3 s the element is dropped: no scene lists
\* it (stated for the runs in which no time was rounded).
C23_OutOfRangeElement ==
    [][(pc = "a_place" /\ ~rounded) =>
          \A k \in 1..Len(precollected) :
             LET e == precollected[k]
             IN OutOfRange(scenes, e.ts) =>
                   /\ \A i \in Eligible(scenes) :
                         Lists(scenes', i, e.uid) =>
                            /\ i \in WithinJump(scenes, e.ts)
                            /\ \A j \in Eligible(scenes) :
                                  MidDistance2(scenes[i], e.ts) <= MidDistance2(scenes[j], e.ts)
                            /\ \A j \in 1..Len(scenes'[i].elems) :
                                  scenes'[i].elems[j].uid = e.uid =>
                                     /\ scenes'[i].start <= scenes'[i].elems[j].ts
                                     /\ scenes'[i].elems[j].ts < scenes'[i].end
                   /\ WithinJump(scenes, e.ts) = {} =>
                         \A i \in 1..Len(scenes') : ~Lists(scenes', i, e.uid)]_vars

----------------------------------------------------------------------------
(* The anchors of the evidence assets: the rebuild of the evidence scenes  *)
(* applied to assets several phrases of which are held by sentences.       *)

RivalPosts ==
    { Post(<<"\"", "s", "t", "a", "t", "s", "\"", " ", "\"", "f", "a", "n", "s", " ", "r", "a", "g", "e", "d", "\"">>, 1),
      Post(<<"\"", "f", "a", "n", "s", " ", "r", "a", "g", "e", "d", "\"", " ", "\"", "s", "t", "a", "t", "s", "\"">>, 1),
      RedditPool[1] }

RivalCards ==
    { Card(<<"P", "l", "a", "y", " ", "v", "i", "d", "e", "o">>, <<"E", "d", "g", "a", "r">>, <<"K", "a", "i">>),
      YoutubePool[1] }

RivalGraphs ==
    { Graph(<<<<"d", "r", "o", "p">>>>, <<<<"s", "t", "a", "t", "s">>, <<"w", "e", "a", "k">>>>, 1),
      Graph(<<>>, <<<<"d", "r", "o", "p">>, <<"w", "e", "a", "k">>>>, 1) }

InitAnchor ==
    /\ NoFiller
    /\ NoCall
    /\ pc = "a_rebuild"
    /\ sentence_timings \in Scripts
    /\ total = sentence_timings[Len(sentence_timings)].end
    /\ title_card_end = sentence_timings[1].end
    /\ scenes = <<Said(Scene(1, 0, sentence_timings[1].end, "text_statement", <<>>),
                       SentenceTexts[1])>>
    /\ assets \in { [reddit |-> <<r>>, youtube |-> <<y>>, graphs |-> <<g>>] :
                       r \in RivalPosts, y \in RivalCards, g \in RivalGraphs }
    /\ numAssets = [reddit |-> 1, youtube |-> 1, graph |-> 1]
    /\ segments = ScriptSegments
    /\ available_keywords = <<>>
    /\ prev = scenes
    /\ pass = 1
    /\ snap = <<>>
    /\ rounded = FALSE
    /\ keyword_time_map = {}
    /\ precollected = <<>>
    /\ evidence_scenes = <<>>

NextAnchor ==
    \/ RebuildEvidence
    \/ PaceIntro

SpecAnchor == InitAnchor /\ [][NextAnchor]_vars

\* the evidence scenes have been rebuilt
Rebuilt == pc = "a_pace"

\* the (sentence, phrase) pairs in which the sentence holds the phrase, for
\* phrases of at least minLen normalised characters
Matches(phrases, minLen) ==
    {p \in (1..Len(sentence_timings)) \X (1..Len(phrases)) :
        /\ Len(NormText(phrases[p[2]])) >= minLen
        /\ Contains(NormText(sentence_timings[p[1]].text), NormText(phrases[p[2]]))}

\* the sentence of the longest matching phrase, the earliest one on ties
LongestMatch(phrases, minLen) ==
    LET m == Matches(phrases, minLen)
        longest == {p \in m : \A q \in m :
                       Len(NormText(phrases[p[2]])) >= Len(NormText(phrases[q[2]]))}
    IN SetMin({p[1] : p \in longest})

\* the phrases of the asset an evidence scene shows
PhrasesOf(s) ==
    IF s.type = "reddit_evidence"
    THEN ExtractDescPhrases(assets.reddit[s.elems[1].idx + 1].description)
    ELSE IF s.type = "youtube_evidence"
    THEN <<assets.youtube[s.elems[1].idx + 1].title, assets.youtube[s.elems[1].idx + 1].note,
           assets.youtube[s.elems[1].idx + 1].channel>>
    ELSE assets.graphs[s.elems[1].idx + 1].stat_texts \o assets.graphs[s.elems[1].idx + 1].labels

MinLenOf(s) == IF s.type = "data_graph" THEN MinStatLen ELSE MinPhraseLen

\* C24 as stated: an evidence scene built for an asset several phrases of
\* which are held by sentences starts at the sentence of the longest matching
\* phrase, the earliest such sentence on ties (or 0.1 s after the title card
\* when that sentence starts earlier).
C24_LongestPhraseAnchors ==
    Rebuilt =>
       \A i \in 1..Len(evidence_scenes) :
          LET s == evidence_scenes[i]
          IN Matches(PhrasesOf(s), MinLenOf(s)) # {} =>
                s.start = Max2(title_card_end + TitleGap,
                               sentence_timings[LongestMatch(PhrasesOf(s), MinLenOf(s))].start)

----------------------------------------------------------------------------
(* The order of the passes of the pipeline *)

\* the passes main.py runs after _validate_timeline has returned:
\* _fill_empty_scenes of create_timeline, then every pass of
\* assign_timing_with_sentences
LaterPasses ==
    {"v_done", "a_begin", "a_retime", "a_spread", "a_separate", "a_collect",
     "a_rebuild", "a_pace", "a_gaps", "a_place", "a_fill", "a_stagger"}

\* what the renderer reads of a scene: its boundaries, its kind and the
\* elements it lists
Outline(ss) ==
    [i \in 1..Len(ss) |->
        [type |-> ss[i].type, start |-> ss[i].start, end |-> ss[i].end,
         elems |-> [j \in 1..Len(ss[i].elems) |-> ss[i].elems[j].uid]]]

\* C25: once _validate_timeline has run, no later pass changes the scene
\* boundaries, the scene kinds or the element lists: every step taken after
\* the validation leaves the outline of the timeline as it was.
C25_ValidationRunsLast ==
    [][(pc \in LaterPasses) => (Outline(scenes') = Outline(scenes))]_vars

----------------------------------------------------------------------------
(* The density filling on its own: _fill_empty_scenes on a title card and  *)
(* a gameplay scene, as create_timeline calls it (no timing) and as        *)
(* assign_timing_with_sentences calls it (with the keyword time map).      *)

\* the answer of the script analyzer is used as it comes: a list may name a
\* word twice, here "edgar" and "Edgar" for the sentence that holds it
RepeatedKeywords ==
    << Keyword(1, SentenceTexts[2], "icon"),
       Keyword(7, SentenceTexts[2], "icon"),
       Keyword(3, SentenceTexts[3], "text"),
       Keyword(4, SentenceTexts[4], "icon") >>

TextKeywords ==
    << Keyword(3, SentenceTexts[3], "text"),
       Keyword(5, SentenceTexts[5], "icon") >>

FillKeywords == KeywordLists \cup {RepeatedKeywords, TextKeywords}

\* the elements the gameplay scene holds before the filling
FillElements ==
    { <<>>,
      <<Elem(1, "icon", -1, 4, Cs(4))>>,
      <<Elem(1, "icon", -1, 1, Cs(4))>>,
      <<Elem(1, "text", -1, 3, Cs(4)), Elem(2, "icon", -1, 2, Cs(6))>> }

FillPlan(es, end) ==
    << Scene(1, 0, Cs(3), "text_statement", <<>>),
       Scene(2, Cs(3), end, "gameplay_icons", es) >>

InitFill ==
    /\ NoFiller
    /\ NoCall
    /\ pc \in {"v_done", "a_fill"}
    /\ sentence_timings \in Scripts
    /\ total = sentence_timings[Len(sentence_timings)].end
    /\ scenes \in {FillPlan(es, total) : es \in FillElements}
    /\ available_keywords \in FillKeywords
    /\ keyword_time_map = IF pc = "a_fill"
                          THEN KeywordTimeMap(available_keywords, sentence_timings)
                          ELSE {}
    /\ assets = [reddit |-> <<>>, youtube |-> <<>>, graphs |-> <<>>]
    /\ numAssets = [reddit |-> 0, youtube |-> 0, graph |-> 0]
    /\ segments = ScriptSegments
    /\ prev = <<>>
    /\ pass = 1
    /\ snap = <<>>
    /\ rounded = FALSE
    /\ precollected = <<>>
    /\ evidence_scenes = <<>>
    /\ title_card_end = Cs(3)

NextFill ==
    \/ FillValidated
    \/ FillSparseScenes

SpecFill == InitFill /\ [][NextFill]_vars

\* the places <<scene, element>> of the elements of a timeline
ElemsAt(ss) == UNION { {<<i, k>> : k \in 1..Len(ss[i].elems)} : i \in 1..Len(ss) }

TimelineUids(ss) == {ss[p[1]].elems[p[2]].uid : p \in ElemsAt(ss)}

\* the places of the elements the call has inserted
Inserted(before, after) ==
    {p \in ElemsAt(after) : after[p[1]].elems[p[2]].uid \notin TimelineUids(before)}

\* the entry of available_keywords an inserted element was made of
EntryOf(e) ==
    available_keywords[CHOOSE n \in 1..Len(available_keywords) :
                          available_keywords[n].kw = e.kw]

\* no inserted element names a keyword another element of the timeline names
InsertsUnused(before, after) ==
    \A p \in Inserted(before, after) : \A q \in ElemsAt(after) \ {p} :
        Lower(KeywordOf(after[p[1]].elems[p[2]])) # Lower(KeywordOf(after[q[1]].elems[q[2]]))

\* no entry of available_keywords is inserted twice
InsertsOnce(before, after) ==
    \A p \in Inserted(before, after) : \A q \in Inserted(before, after) \ {p} :
        after[p[1]].elems[p[2]].kw # after[q[1]].elems[q[2]].kw

\* a text keyword is inserted only for its timing inside the scene's window
FallsBackToIcons(before, after, useTiming) ==
    \A p \in Inserted(before, after) :
        LET e == after[p[1]].elems[p[2]]
            t == KwTime(EntryOf(e), useTiming, keyword_time_map)
        IN EntryOf(e).display = "text" =>
              /\ useTiming
              /\ after[p[1]].start <= t
              /\ t <= after[p[1]].end

\* C26: _fill_empty_scenes never inserts an element for a keyword an element
\* of the timeline already uses (compared in lower case), inserts each
\* available keyword at most once, and without a timing inside the window
\* inserts icon keywords only.
C26_FillsFromUnused ==
    [][(pc \in {"v_done", "a_fill"}) =>
          /\ InsertsUnused(scenes, scenes')
          /\ InsertsOnce(scenes, scenes')
          /\ FallsBackToIcons(scenes, scenes', pc = "a_fill")]_vars

----------------------------------------------------------------------------
(* The evidence scenes _validate_timeline returns *)

EvidenceScenesOf(ss, ty) == {i \in 1..Len(ss) : ss[i].type = ty}

\* the evidence scenes of the plan that come after as many scenes of their
\* kind as there are assets of the kind
Surplus(ss) ==
    {j \in 1..Len(ss) :
        /\ KindOf(ss[j].type) # ""
        /\ Cardinality({i \in EvidenceScenesOf(ss, ss[j].type) : i < j})
              >= numAssets[KindOf(ss[j].type)]}

\* C27: after _validate_timeline every reddit_evidence, youtube_evidence and
\* data_graph scene holds exactly one element, of its own kind, with an index
\* in [0, number of assets of the kind) that no other scene of the kind
\* holds, so the scenes of a kind are never more than its assets; and the
\* index repairs leave every surplus evidence scene as a gameplay_icons
\* scene without elements.
C27_OneAssetPerEvidenceScene ==
    /\ pc = "v_done" =>
          \A i \in 1..Len(scenes) :
             LET k == KindOf(scenes[i].type)
             IN k # "" =>
                  /\ Len(scenes[i].elems) = 1
                  /\ scenes[i].elems[1].type = k
                  /\ scenes[i].elems[1].idx >= 0
                  /\ scenes[i].elems[1].idx < numAssets[k]
                  /\ \A j \in EvidenceScenesOf(scenes, scenes[i].type) \ {i} :
                        /\ Len(scenes[j].elems) = 1
                        /\ scenes[j].elems[1].idx # scenes[i].elems[1].idx
                  /\ Cardinality(EvidenceScenesOf(scenes, scenes[i].type)) <= numAssets[k]
    /\ pc = "v_max" =>
          \A j \in Surplus(prev) :
             /\ scenes[j].type = "gameplay_icons"
             /\ scenes[j].elems = <<>>

\* a returned timeline with two scenes of one kind, one on each of the two
\* assets of the kind
C27_Witness ==
    /\ pc = "v_done"
    /\ pass = 1
    /\ numAssets.reddit = 2
    /\ \E i, j \in 1..Len(scenes) :
          /\ i # j
          /\ scenes[i].type = "reddit_evidence"
          /\ scenes[j].type = "reddit_evidence"
          /\ scenes[i].elems[1].idx = 0
          /\ scenes[j].elems[1].idx = 1

----------------------------------------------------------------------------
(* The title card _validate_timeline returns *)

TextStatements(ss) == {i \in 1..Len(ss) : ss[i].type = "text_statement"}

\* C28: after _validate_timeline at most one scene is a text_statement, and
\* it is the first scene of the list, whatever the plan, a plan whose first
\* scene is longer than the 10 s maximum of a text_statement included.
C28_SingleTitleCard ==
    pc = "v_done" => TextStatements(scenes) \subseteq {1}

----------------------------------------------------------------------------
(* ClaudeClient.ask: the request to the API and its retries.  What         *)
(* self.client.messages.create does is the environment's choice: it       *)
(* returns a response or raises an exception that carries a message.      *)

MaxRetries == 3

\* wait_time = (attempt + 1) * 30
RetryWait == 30

Response(text) == [ok |-> TRUE, kind |-> "response", msg |-> <<>>, text |-> text]

Raised(kind, msg) == [ok |-> FALSE, kind |-> kind, msg |-> msg, text |-> ""]

\* the exceptions of the model, each with the message str(e) gives
RateLimited == Raised("rate_limit", <<"E", "r", "r", "o", "r", " ", "c", "o", "d", "e", ":", " ", "4", "2", "9", " ", "-", " ", "r", "a", "t", "e", "_", "l", "i", "m", "i", "t", "_", "e", "r", "r", "o", "r">>)
GatewayTimeout == Raised("timeout", <<"E", "r", "r", "o", "r", " ", "c", "o", "d", "e", ":", " ", "5", "0", "4", " ", "-", " ", "G", "a", "t", "e", "w", "a", "y", " ", "T", "i", "m", "e", "o", "u", "t">>)
ConnectTimeout == Raised("timeout", <<"c", "o", "n", "n", "e", "c", "t", " ", "t", "i", "m", "e", "o", "u", "t">>)
RequestTimedOut == Raised("timeout", <<"R", "e", "q", "u", "e", "s", "t", " ", "t", "i", "m", "e", "d", " ", "o", "u", "t", ".">>)
ConnectionError == Raised("other", <<"C", "o", "n", "n", "e", "c", "t", "i", "o", "n", " ", "e", "r", "r", "o", "r", ".">>)
Unauthorized == Raised("other", <<"E", "r", "r", "o", "r", " ", "c", "o", "d", "e", ":", " ", "4", "0", "1", " ", "-", " ", "a", "u", "t", "h", "e", "n", "t", "i", "c", "a", "t", "i", "o", "n", "_", "e", "r", "r", "o", "r">>)

ApiOutcomes ==
    { Response("plan a"), Response("plan b"), RateLimited, GatewayTimeout,
      ConnectTimeout, RequestTimedOut, ConnectionError, Unauthorized }

\* mutant: every exception is taken for a timeout
RetryAnyError(msg) == TRUE

\* "timeout" in error_msg.lower() or "rate" in error_msg.lower()
IsRetryable(msg) ==
    \/ Contains(Lower(msg), <<"t", "i", "m", "e", "o", "u", "t">>)
    \/ Contains(Lower(msg), <<"r", "a", "t", "e">>)

InitAsk ==
    /\ NoFiller
    /\ pc = "ask_create"
    /\ max_retries \in 0..MaxRetries
    /\ attempt = 0
    /\ calls = <<>>
    /\ slept = <<>>
    /\ result = "none"
    /\ scenes = <<>>
    /\ total = 0
    /\ numAssets = [reddit |-> 0, youtube |-> 0, graph |-> 0]
    /\ prev = <<>>
    /\ pass = 1
    /\ snap = <<>>
    /\ rounded = FALSE
    /\ sentence_timings = <<>>
    /\ available_keywords = <<>>
    /\ assets = [reddit |-> <<>>, youtube |-> <<>>, graphs |-> <<>>]
    /\ segments = <<>>
    /\ keyword_time_map = {}
    /\ precollected = <<>>
    /\ evidence_scenes = <<>>
    /\ title_card_end = 0

\* one turn of "for attempt in range(max_retries)": the try block and the
\* except block up to its return or its time.sleep
CreateMessage ==
    /\ pc = "ask_create"
    /\ attempt < max_retries
    /\ \E outcome \in ApiOutcomes :
          /\ calls' = Append(calls, outcome)
          /\ IF outcome.ok
             THEN result' = outcome.text /\ pc' = "ask_done"
             ELSE IF IsRetryable(outcome.msg) /\ attempt < max_retries - 1
             THEN result' = result /\ pc' = "ask_sleep"
             ELSE result' = "none" /\ pc' = "ask_done"
    /\ UNCHANGED <<max_retries, attempt, slept>>
    /\ UNCHANGED <<scenes, total, numAssets, prev, pass, snap, rounded, avars, gvars>>

\* time.sleep(wait_time); continue
SleepBeforeRetry ==
    /\ pc = "ask_sleep"
    /\ slept' = Append(slept, (attempt + 1) * RetryWait)
    /\ attempt' = attempt + 1
    /\ pc' = "ask_create"
    /\ UNCHANGED <<max_retries, calls, result>>
    /\ UNCHANGED <<scenes, total, numAssets, prev, pass, snap, rounded, avars, gvars>>

\* the "return None" after the loop
LoopExhausted ==
    /\ pc = "ask_create"
    /\ attempt >= max_retries
    /\ result' = "none"
    /\ pc' = "ask_done"
    /\ UNCHANGED <<max_retries, attempt, calls, slept>>
    /\ UNCHANGED <<scenes, total, numAssets, prev, pass, snap, rounded, avars, gvars>>

NextAsk ==
    \/ CreateMessage
    \/ SleepBeforeRetry
    \/ LoopExhausted

\* the interpreter runs the call to its end: the request has a timeout and
\* every sleep is finite
SpecAsk == InitAsk /\ [][NextAsk]_vars /\ WF_vars(NextAsk)

Returned == pc = "ask_done"

\* the exceptions the claim lets ask try again after
TransientKinds == {"timeout", "rate_limit"}

----------------------------------------------------------------------------
(* ScenePlanner._generate_filler_scenes: the scenes generated for the part *)
(* of the video a truncated plan left without scenes                       *)

MaxFillerEnd == 90

FillerSceneMax == 18
FillerSceneMin == 8
EmphasisDur == 4
EmphasisMinRemaining == 20
EmphasisEvery == 3
FillerMinRemaining == 1
FillerElemLead == 50
MaxFillerElems == 6
NoEstimate == 999999

ContextKeyword(k, display, est) == [kw |-> k, display |-> display, estimated_time |-> est]

\* keywords_with_context; an estimated_time of 0 stands for None as well
ContextKeywords ==
    << ContextKeyword(1, "icon", Cs(40)),
       ContextKeyword(2, "icon", 0),
       ContextKeyword(3, "text", Cs(12)),
       ContextKeyword(4, "icon", Cs(35)),
       ContextKeyword(5, "icon", Cs(2)),
       ContextKeyword(6, "icon", Cs(50)),
       ContextKeyword(7, "icon", Cs(3)),
       ContextKeyword(8, "text", Cs(60)) >>

FillerKeywordLists == {<<>>, SubSeq(ContextKeywords, 1, 2), ContextKeywords}

\* the scenes of the truncated plan
ExistingPlans ==
    { <<>>,
      << Scene(1, 0, Cs(1), "gameplay_icons", <<Icon(1, 50)>>) >> }

FillerStarts == {0, Cs(1), 2950, Cs(30)}

FillerEnds == {Cs(10), Cs(19), Cs(20), Cs(30), Cs(41), Cs(49), Cs(60), Cs(MaxFillerEnd)}

\* kw.get('estimated_time', float('inf')) or float('inf')
EstimateKey(k) == IF k.estimated_time = 0 THEN NoEstimate ELSE k.estimated_time

\* list.sort(key=...): stable insertion sort
RECURSIVE InsertByEstimate(_, _)
InsertByEstimate(sorted, k) ==
    IF sorted = <<>> THEN <<k>>
    ELSE IF EstimateKey(Head(sorted)) <= EstimateKey(k)
         THEN <<Head(sorted)>> \o InsertByEstimate(Tail(sorted), k)
         ELSE <<k>> \o sorted

RECURSIVE SortByEstimate(_, _)
SortByEstimate(acc, ks) ==
    IF ks = <<>> THEN acc ELSE SortByEstimate(InsertByEstimate(acc, Head(ks)), Tail(ks))

\* keywords_to_use: the unused keywords by estimated time, the ones at or
\* after start_time when there are any
KeywordsToUse(existing, kwc, start) ==
    LET unused == SortByEstimate(<<>>,
                     SelectSeq(kwc, LAMBDA k : Lower(Word(k.kw)) \notin UsedKeywords(existing)))
        late == SelectSeq(unused, LAMBDA k : k.estimated_time # 0 /\ k.estimated_time >= start)
    IN IF late # <<>> THEN late ELSE unused

UpperChar(c) ==
    IF \E n \in 1..26 : LowerLetters[n] = c
    THEN UpperLetters[CHOOSE n \in 1..26 : LowerLetters[n] = c]
    ELSE c

\* str.upper
Upper(t) == Tuple([i \in 1..Len(t) |-> UpperChar(t[i])])

\* scene_duration = min(18, max(8, remaining))
FillerDuration(remaining) == Min2(Cs(FillerSceneMax), Max2(Cs(FillerSceneMin), remaining))

\* mutant: the scene keeps its whole duration
FillerEndUncapped(current, duration, end) == current + duration

\* scene_end = min(current_time + scene_duration, end_time)
FillerEnd(current, duration, end) == Min2(current + duration, end)

\* the elements of a filler scene: calculate_stagger_times and the loop over
\* element_times
FillerElements(current, duration, ks, idx) ==
    LET n == Min2(MaxFillerElems, Len(ks) - idx)
    IN Tuple([i \in 1..n |->
             Elem(0, IF ks[idx + i].display = "text" THEN "text" ELSE "icon", -1,
                  ks[idx + i].kw,
                  current + FillerElemLead + (i - 1) * (duration \div (n + 1)))])

InitFiller ==
    /\ NoCall
    /\ pc = "g_loop"
    /\ start_time \in FillerStarts
    /\ end_time \in {e \in FillerEnds : e > start_time}
    /\ \E existing \in ExistingPlans : \E kwc \in FillerKeywordLists :
          /\ keywords_to_use = KeywordsToUse(existing, kwc, start_time)
          /\ scene_number = Len(existing) + 1
    /\ keyword_idx = 0
    /\ current_time = start_time
    /\ scenes_since_special = EmphasisEvery
    /\ filler_scenes = <<>>
    /\ scenes = <<>>
    /\ total = 0
    /\ numAssets = [reddit |-> 0, youtube |-> 0, graph |-> 0]
    /\ prev = <<>>
    /\ pass = 1
    /\ snap = <<>>
    /\ rounded = FALSE
    /\ sentence_timings = <<>>
    /\ available_keywords = <<>>
    /\ assets = [reddit |-> <<>>, youtube |-> <<>>, graphs |-> <<>>]
    /\ segments = <<>>
    /\ keyword_time_map = {}
    /\ precollected = <<>>
    /\ evidence_scenes = <<>>
    /\ title_card_end = 0

\* while current_time < end_time - 1
FillerContinues == current_time < end_time - Cs(FillerMinRemaining)

EmphasisDue ==
    /\ scenes_since_special >= EmphasisEvery
    /\ keyword_idx < Len(keywords_to_use)
    /\ end_time - current_time > Cs(EmphasisMinRemaining)

\* a turn of the loop that appends a text_statement and continues
AddEmphasis ==
    /\ pc = "g_loop"
    /\ FillerContinues
    /\ EmphasisDue
    /\ LET text_scene_end == current_time + Min2(Cs(EmphasisDur), end_time - current_time)
       IN /\ filler_scenes' = Append(filler_scenes,
                 [Scene(scene_number, current_time, text_scene_end, "text_statement", <<>>)
                    EXCEPT !.text = Upper(Word(keywords_to_use[keyword_idx + 1].kw))])
          /\ current_time' = text_scene_end
    /\ keyword_idx' = keyword_idx + 1
    /\ scene_number' = scene_number + 1
    /\ scenes_since_special' = 0
    /\ UNCHANGED <<pc, start_time, end_time, keywords_to_use>>
    /\ UNCHANGED <<scenes, total, numAssets, prev, pass, snap, rounded, avars, cvars>>

\* a turn of the loop that appends a gameplay_icons scene
AddFiller ==
    /\ pc = "g_loop"
    /\ FillerContinues
    /\ ~EmphasisDue
    /\ LET scene_duration == FillerDuration(end_time - current_time)
           scene_end == FillerEnd(current_time, scene_duration, end_time)
           elements == FillerElements(current_time, scene_duration, keywords_to_use, keyword_idx)
       IN /\ filler_scenes' = Append(filler_scenes,
                 Scene(scene_number, current_time, scene_end, "gameplay_icons", elements))
          /\ current_time' = scene_end
          /\ keyword_idx' = keyword_idx + Len(elements)
    /\ scene_number' = scene_number + 1
    /\ scenes_since_special' = scenes_since_special + 1
    /\ UNCHANGED <<pc, start_time, end_time, keywords_to_use>>
    /\ UNCHANGED <<scenes, total, numAssets, prev, pass, snap, rounded, avars, cvars>>

\* return filler_scenes
ReturnFiller ==
    /\ pc = "g_loop"
    /\ ~FillerContinues
    /\ pc' = "g_done"
    /\ UNCHANGED <<scenes, total, numAssets, prev, pass, snap, rounded, avars, cvars, gvars>>

NextFiller ==
    \/ AddEmphasis
    \/ AddFiller
    \/ ReturnFiller

\* the interpreter runs the loop on: a turn does no waiting
SpecFiller == InitFiller /\ [][NextFiller]_vars /\ WF_vars(NextFiller)

FillerReturned == pc = "g_done"

\* where the returned scenes stop
CoveredUntil ==
    IF filler_scenes = <<>> THEN start_time ELSE filler_scenes[Len(filler_scenes)].end

Consecutive(ss, start) ==
    /\ ss # <<>> => ss[1].start = start
    /\ \A i \in 1..(Len(ss) - 1) : ss[i + 1].start = ss[i].end

\* C30 as stated: _generate_filler_scenes terminates, every turn of its loop
\* advancing the current time; the scenes it returns are consecutive from
\* start_time, none ends after end_time, and less than 1 s of
\* [start_time, end_time] is left uncovered at the end.
C30_FillerCoversToEnd ==
    /\ <>FillerReturned
    /\ [][(pc = "g_loop" /\ pc' = "g_loop") => current_time' > current_time]_vars
    /\ [](FillerReturned =>
            /\ Consecutive(filler_scenes, start_time)
            /\ \A i \in 1..Len(filler_scenes) : filler_scenes[i].end <= end_time
            /\ end_time - CoveredUntil < Cs(1))

\* C30 amended: the same, with at most 1 s (1 s included) of
\* [start_time, end_time] left uncovered at the end.
C30_FillerCoversToLastSecond ==
    /\ <>FillerReturned
    /\ [][(pc = "g_loop" /\ pc' = "g_loop") =>
             /\ current_time' > current_time
             /\ Len(filler_scenes') = Len(filler_scenes) + 1]_vars
    /\ [](FillerReturned =>
            /\ Consecutive(filler_scenes, start_time)
            /\ \A i \in 1..Len(filler_scenes) :
                  /\ filler_scenes[i].end <= end_time
                  /\ filler_scenes[i].end > filler_scenes[i].start
            /\ end_time - CoveredUntil <= Cs(1)
            /\ end_time - CoveredUntil >= 0)

\* an emphasis scene and two filler scenes were returned, and the last
\* second before end_time is left without a scene
C30_Witness ==
    /\ FillerReturned
    /\ Len(filler_scenes) = 3
    /\ filler_scenes[1].type = "text_statement"
    /\ filler_scenes[3].type = "gameplay_icons"
    /\ end_time - CoveredUntil = Cs(1)

====
